---- MODULE Spec2Model ----
(***************************************************************************)
(* Model of the translation pipeline routing of SimpleTranslationAgent     *)
(* (src/livekit-app/translation-agent/realtime_agent_simple.py).           *)
(*                                                                         *)
(* The agent runs on one asyncio event loop.  Room callbacks (data         *)
(* received, participant connected / disconnected, track published) run    *)
(* synchronously and schedule coroutines with asyncio.create_task.  A      *)
(* coroutine runs without interruption up to its next await of a provider  *)
(* call (session.start, assistant.aclose) or of asyncio.sleep; every       *)
(* action below is one such uninterrupted segment.                         *)
(*                                                                         *)
(* A Python dict is modelled as a function on its keys.  Python iterates a *)
(* dict in insertion order; the loops of the model visit the same keys,    *)
(* each once, in the fixed order of ParticipantOrder and LanguageOrder.    *)
(* An assistant key "{speaker_id}:{target_language}" is modelled as the    *)
(* pair <<speaker_id, target_language>>.                                   *)
(***************************************************************************)
EXTENDS Integers, FiniteSets, Sequences, TLC

ParticipantOrder == <<"X", "Y", "Z", "agent-1">>
LanguageOrder == <<"en", "es", "fr">>
Identities == {ParticipantOrder[i] : i \in 1..Len(ParticipantOrder)}
\* participant.identity.startswith('agent-')
IsAgent(identity) == identity \in {"agent-1"}
Participants == {p \in Identities : ~IsAgent(p)}
Languages == {LanguageOrder[i] : i \in 1..Len(LanguageOrder)}
VadLevels == {"low", "medium", "high"}
None == "None"

\* Bounds of the exploration.
MaxEvents == 3
MaxSerialEvents == 4
MaxRaceEvents == 4
MaxVadEvents == 4
MaxAgentEvents == 4
MaxMessageEvents == 4
MaxRejoinEvents == 6
MaxTranscriptEvents == 5
MaxTokens == 3
MaxResolverEvents == 3
MaxVadRaceEvents == 4
MaxTasks == 2
MaxSessions == 4
MaxRealtimeEvents == 3
MaxRealtimeSessions == 6
MaxFrames == 3
MaxClients == 3
MaxManualEvents == 5
MaxManualTasks == 3
MaxShutdownEvents == 2

VARIABLES
    room,                   \* identities in ctx.room.remote_participants
    audio,                  \* participants with a published audio track
    participant_languages,  \* dict participant_id -> language
    translation_enabled,    \* dict participant_id -> bool
    assistants,             \* dict <<speaker, target>> -> session id
    host_vad_setting,       \* current sensitivity level
    sessions,               \* the AgentSession objects, by identifier
    tasks,                  \* coroutines scheduled on the event loop
    nEvents,                \* number of room events delivered so far
    scn,                    \* history of the handling of the last event (see Observe)
    user_data,              \* session.user_data of each AgentSession
    sends,                  \* _send_transcription_data tasks not yet finished
    outcomes,               \* history: every publish_data call and how it ended
    nEmitted,               \* number of transcription messages built so far
    turn_finals,            \* history: per session, the final messages built and
                            \* the final texts skipped in the current turn, and
                            \* the number of messages built before the turn
    unsubscribed,           \* audio publications with subscribed = False
    filtered,               \* history: sessions _update_assistant_subscriptions
                            \* has been applied to
    realtime,               \* the RealtimeTranslationAgent object of
                            \* realtime_agent_realtime.py and its coroutines
    daily,                  \* the TranslationAgent object of
                            \* src/translation-agent/agent.py, its
                            \* OpenAIRealtimeClient objects and its coroutines
    manual                  \* the TranslationAgent object of realtime_agent.py
                            \* in manual mode and its audio-processing tasks

vars == <<room, audio, participant_languages, translation_enabled, assistants,
          host_vad_setting, sessions, tasks, nEvents, scn,
         user_data, sends, outcomes, nEmitted, turn_finals, unsubscribed, filtered,
         realtime, daily, manual>>

\* the variables of the transcript handlers
transcripts == <<user_data, sends, outcomes, nEmitted, turn_finals>>

\* the variables of the subscription filter
subscriptions == <<unsubscribed, filtered>>

\* the agents of the repository's other entry points, each explored in a
\* specification of its own
variants == <<realtime, daily, manual>>

(***************************************************************************)
(* Dictionaries.                                                           *)
(***************************************************************************)
EmptyDict == [k \in {} |-> None]

Has(d, k) == k \in DOMAIN d

Get(d, k, default) == IF k \in DOMAIN d THEN d[k] ELSE default

Put(d, k, v) == [x \in DOMAIN d \cup {k} |-> IF x = k THEN v ELSE d[x]]

Pop(d, k) == [x \in DOMAIN d \ {k} |-> d[x]]

SeqSet(s) == {s[i] : i \in 1..Len(s)}

RemoveAt(s, i) == [j \in 1..(Len(s) - 1) |-> IF j < i THEN s[j] ELSE s[j + 1]]

\* every assistant key, speakers in ParticipantOrder, targets in LanguageOrder
RouteOrder ==
    [n \in 1..(Len(ParticipantOrder) * Len(LanguageOrder)) |->
        <<ParticipantOrder[((n - 1) \div Len(LanguageOrder)) + 1],
          LanguageOrder[((n - 1) % Len(LanguageOrder)) + 1]>>]

\* list(self.assistants.keys())
Keys(assts) == SelectSeq(RouteOrder, LAMBDA k : k \in DOMAIN assts)

(***************************************************************************)
(* _update_assistants_for_all_languages: the values read on entry.         *)
(***************************************************************************)
Speakers_IgnoreAudio(rm, au) ==
    SelectSeq(ParticipantOrder, LAMBDA p : p \in rm /\ ~IsAgent(p))

\* speakers: the remote participants, other agents excepted, with an audio
\* publication
Speakers(rm, au) ==
    SelectSeq(ParticipantOrder, LAMBDA p : p \in rm /\ ~IsAgent(p) /\ p \in au)

TargetLanguages_IgnoreEnabled(langs, enabled) ==
    SelectSeq(LanguageOrder, LAMBDA l : \E p \in DOMAIN langs : langs[p] = l)

\* target_languages: the languages of the participants with translation enabled
TargetLanguages(langs, enabled) ==
    SelectSeq(LanguageOrder,
              LAMBDA l : \E p \in DOMAIN langs : langs[p] = l /\ Get(enabled, p, FALSE))

(***************************************************************************)
(* Coroutines.  kind: "update" = update_all() wrapping                     *)
(* _update_assistants_for_all_languages, "vad" =                           *)
(* _restart_all_assistants_for_vad_change, "close" = close_assistant().    *)
(* pc: "new" (scheduled, not yet run), "starting" (awaiting                *)
(* session.start), "closing" (awaiting aclose), "sleeping" (awaiting       *)
(* asyncio.sleep).  The other fields are the coroutine's local variables.  *)
(***************************************************************************)
NewTask(kind, sid) ==
    [kind |-> kind, pc |-> "new",
     phase |-> IF kind = "vad" THEN "restart" ELSE IF kind = "close" THEN "close" ELSE "build",
     speakers |-> <<>>,          \* speakers not yet iterated (head = current)
     targets |-> <<>>,           \* target_languages keys
     ti |-> 0,                   \* position in the inner loop, 0 = not entered
     speaker_language |-> None,
     expected |-> {},            \* expected_assistants
     keys |-> <<>>,              \* keys of the stop loop not yet iterated
     route |-> <<>>,             \* assistant key of the pending provider call
     sid |-> sid,                \* session of the pending provider call
     snap |-> [speakers |-> <<>>, langs |-> EmptyDict]]
                                 \* history: what the registry held at entry

\* entry of _update_assistants_for_all_languages (lines 262-285)
UpdateEntry(t, rm, au, langs, enabled) ==
    [t EXCEPT !.phase = "build",
              !.speakers = Speakers(rm, au),
              !.targets = TargetLanguages(langs, enabled),
              !.ti = 0, !.speaker_language = None,
              !.expected = {}, !.keys = <<>>,
              !.snap = [speakers |-> Speakers(rm, au), langs |-> langs]]

\* `if not speaker_language` (line 288)
NoPreference(speaker_language) == speaker_language = None

SameLanguage_Never(speaker_language, target_language) == FALSE

\* `if speaker_language == target_language` (line 294)
SameLanguage(speaker_language, target_language) == speaker_language = target_language

NeedsCreate_Always(assts, key) == TRUE

\* `if assistant_key not in self.assistants` (line 301)
NeedsCreate(assts, key) == ~Has(assts, key)

NoLongerNeeded_Never(key, expected) == FALSE

\* `if assistant_key not in expected_assistants` (line 309)
NoLongerNeeded(key, expected) == key \notin expected

\* The creation loop (lines 286-305), run until a session must be started
\* (pc "create") or the loop ends (pc "built").
RECURSIVE BuildLoop(_, _, _)
BuildLoop(t, langs, assts) ==
    IF t.speakers = <<>> THEN [t EXCEPT !.pc = "built"]
    ELSE IF t.ti = 0 THEN
        LET sl == Get(langs, Head(t.speakers), None)
        IN  IF NoPreference(sl)
            THEN BuildLoop([t EXCEPT !.speakers = Tail(@)], langs, assts)
            ELSE BuildLoop([t EXCEPT !.speaker_language = sl, !.ti = 1], langs, assts)
    ELSE IF t.ti > Len(t.targets) THEN
        BuildLoop([t EXCEPT !.speakers = Tail(@), !.ti = 0], langs, assts)
    ELSE IF SameLanguage(t.speaker_language, t.targets[t.ti]) THEN
        BuildLoop([t EXCEPT !.ti = @ + 1], langs, assts)
    ELSE
        LET key == <<Head(t.speakers), t.targets[t.ti]>>
            t2 == [t EXCEPT !.expected = @ \cup {key}, !.ti = @ + 1]
        IN  IF NeedsCreate(assts, key)
            THEN [t2 EXCEPT !.pc = "create", !.route = key]
            ELSE BuildLoop(t2, langs, assts)

\* The stop loop (lines 307-312), run until an assistant is popped and its
\* aclose awaited (pc "close"), the loop ends (pc "done"), or pop raises
\* KeyError because the key has left the dict meanwhile (pc "raised").
RECURSIVE StopLoop(_, _)
StopLoop(t, assts) ==
    IF t.keys = <<>> THEN [t EXCEPT !.pc = "done"]
    ELSE IF NoLongerNeeded(Head(t.keys), t.expected) THEN
        IF Has(assts, Head(t.keys))
        THEN [t EXCEPT !.pc = "close", !.route = Head(t.keys), !.keys = Tail(@)]
        ELSE [t EXCEPT !.pc = "raised"]
    ELSE StopLoop([t EXCEPT !.keys = Tail(@)], assts)

RestartLoop_SkipStop(t, assts) == [t EXCEPT !.pc = "sleep"]

\* The stop-all loop of _restart_all_assistants_for_vad_change (lines
\* 944-949); after it the coroutine awaits asyncio.sleep (pc "sleep").
RestartLoop(t, assts) ==
    IF t.keys = <<>> THEN [t EXCEPT !.pc = "sleep"]
    ELSE IF Has(assts, Head(t.keys))
         THEN [t EXCEPT !.pc = "close", !.route = Head(t.keys), !.keys = Tail(@)]
         ELSE [t EXCEPT !.pc = "raised"]

\* One uninterrupted segment of a coroutine, from its current position to
\* its next await or its end.
Segment(t, langs, assts) ==
    IF t.phase = "restart" THEN RestartLoop(t, assts)
    ELSE IF t.phase = "stop" THEN StopLoop(t, assts)
    ELSE LET b == BuildLoop(t, langs, assts)
         IN  IF b.pc = "create" THEN b
             ELSE StopLoop([b EXCEPT !.phase = "stop", !.keys = Keys(assts)], assts)

(***************************************************************************)
(* History variable.  scn records how the last room event was handled when *)
(* that event arrived with no coroutine pending and no other event has     *)
(* arrived since (solo): the event, the assistants dict before it, the     *)
(* expected_assistants set the pass computed, the provider calls in the    *)
(* order they were issued (ops), whether the handling has run to its end,  *)
(* and how the handling of the event before it ended (prev).  It is never  *)
(* read by the program.                                                    *)
(***************************************************************************)
NoEvent == [kind |-> "none", p |-> None, old |-> None, oldEnabled |-> FALSE,
            new |-> None, enabled |-> FALSE]

Blank ==
    [ev |-> NoEvent, solo |-> FALSE, pre |-> EmptyDict, built |-> FALSE,
     expected |-> {}, ops |-> <<>>, done |-> FALSE, prev |-> "none",
     nochange |-> FALSE, retry |-> {}, repeat |-> FALSE]

\* the routes of the logged provider calls of one kind
OpsOf(g, kind) == {g.ops[n][2] : n \in {m \in 1..Len(g.ops) : g.ops[m][1] = kind}}

Observe(ev, nochange) ==
    IF Len(tasks) = 0
    THEN [Blank EXCEPT !.ev = ev, !.solo = TRUE, !.pre = assistants,
                       !.prev = IF scn.solo /\ scn.done /\ scn.built
                                THEN IF OpsOf(scn, "fail") = {} THEN "clean" ELSE "failed"
                                ELSE "none",
                       !.nochange = nochange,
                       \* the routes whose start failed in the last completed pass
                       !.retry = IF scn.solo /\ scn.done
                                 THEN IF scn.built THEN OpsOf(scn, "fail") ELSE scn.retry
                                 ELSE {},
                       \* the event is the language update handled last, once more
                       !.repeat = /\ scn.solo /\ scn.done
                                  /\ ev.kind = "language" /\ scn.ev.kind = "language"
                                  /\ ev.p = scn.ev.p /\ ev.new = scn.ev.new
                                  /\ ev.enabled = scn.ev.enabled]
    ELSE Blank

Logged(g, kind, route) == IF g.solo THEN [g EXCEPT !.ops = Append(@, <<kind, route>>)] ELSE g

Built(g, r) ==
    IF g.solo /\ r.phase = "stop" THEN [g EXCEPT !.built = TRUE, !.expected = r.expected] ELSE g

(***************************************************************************)
(* AgentSession objects.  A session exists from its construction in        *)
(* _create_assistant_for_pair until it is closed (or its start has failed) *)
(* and no coroutine refers to it any more; its identifier is then free to  *)
(* name a later session.                                                   *)
(***************************************************************************)
\* base_config of _get_vad_config (lines 79-82)
PrefixPaddingMs == 300

GetVadConfig_NoDefault(setting) ==
    IF setting = "low"
    THEN [threshold |-> 75, silence_duration_ms |-> 1000, prefix_padding_ms |-> PrefixPaddingMs]
    ELSE IF setting = "high"
    THEN [threshold |-> 40, silence_duration_ms |-> 400, prefix_padding_ms |-> PrefixPaddingMs]
    ELSE IF setting = "medium"
    THEN [threshold |-> 50, silence_duration_ms |-> 500, prefix_padding_ms |-> PrefixPaddingMs]
    ELSE [error |-> setting]

\* _get_vad_config: the turn_detection settings of the sensitivity level
\* (threshold in hundredths, silence_duration_ms, prefix_padding_ms)
GetVadConfig(setting) ==
    IF setting = "low"
    THEN [threshold |-> 75, silence_duration_ms |-> 1000, prefix_padding_ms |-> PrefixPaddingMs]
    ELSE IF setting = "high"
    THEN [threshold |-> 40, silence_duration_ms |-> 400, prefix_padding_ms |-> PrefixPaddingMs]
    ELSE [threshold |-> 50, silence_duration_ms |-> 500, prefix_padding_ms |-> PrefixPaddingMs]

NoSession == [route |-> <<>>, state |-> "free", vad |-> None]

FreeIds(sess) == {n \in 1..MaxSessions : sess[n].state = "free"}

NewId_Reuse(sess) == 1

\* `session = AgentSession(...)` (lines 355-359): a new object each time
NewId(sess) == CHOOSE n \in FreeIds(sess) : \A m \in FreeIds(sess) : n <= m

\* the session's state once its aclose() has returned or its start has failed
Gone(sess, sid, tsks) ==
    IF \E j \in 1..Len(tsks) : tsks[j].sid = sid
    THEN [sess EXCEPT ![sid].state = "closed"]
    ELSE [sess EXCEPT ![sid] = NoSession]

(***************************************************************************)
(* Effect of a segment that ended in state r: the provider call it issues  *)
(* and the coroutine's new position.  assts, sess, g are the dict, the     *)
(* sessions and the history after the part of the segment already applied. *)
(***************************************************************************)
Apply(i, r, assts, sess, g) ==
    CASE r.pc = "create" ->
            \* _create_assistant_for_pair up to `await session.start` (lines 329-721)
            /\ FreeIds(sess) # {}
            /\ sessions' = [sess EXCEPT ![NewId(sess)] =
                                [route |-> r.route, state |-> "starting",
                                 vad |-> GetVadConfig(host_vad_setting)]]
            /\ assistants' = assts
            /\ tasks' = [tasks EXCEPT ![i] = [r EXCEPT !.pc = "starting", !.sid = NewId(sess)]]
            /\ scn' = Logged(g, "start", r.route)
      [] r.pc = "close" ->
            \* assistant = self.assistants.pop(key); await assistant.aclose()
            /\ assistants' = Pop(assts, r.route)
            /\ sessions' = [sess EXCEPT ![Get(assts, r.route, 0)].state = "closing"]
            /\ tasks' = [tasks EXCEPT ![i] = [r EXCEPT !.pc = "closing", !.sid = Get(assts, r.route, 0)]]
            /\ scn' = Logged(Built(g, r), "stop", r.route)
      [] r.pc = "sleep" ->
            /\ assistants' = assts
            /\ sessions' = sess
            /\ tasks' = [tasks EXCEPT ![i] = [r EXCEPT !.pc = "sleeping"]]
            /\ scn' = g
      [] r.pc = "done" ->
            /\ assistants' = assts
            /\ sessions' = sess
            /\ tasks' = RemoveAt(tasks, i)
            /\ scn' = IF g.solo THEN [Built(g, r) EXCEPT !.done = (Len(tasks) = 1)] ELSE g
      [] r.pc = "raised" ->
            /\ assistants' = assts
            /\ sessions' = sess
            /\ tasks' = RemoveAt(tasks, i)
            /\ scn' = g

Registry == <<room, audio, participant_languages, translation_enabled, host_vad_setting>>

(***************************************************************************)
(* Coroutine steps.                                                        *)
(***************************************************************************)
\* the coroutine once the provider call it awaited has returned
Resumed(t) == [t EXCEPT !.route = <<>>, !.sid = 0]

\* asyncio runs ready tasks first-in first-out: a new task takes its first
\* step only after every task created before it has taken its own.
IsNext(i) == tasks[i].pc = "new" /\ \A j \in 1..(i - 1) : tasks[j].pc # "new"

\* first segment of update_all()
UpdateBegin(i) ==
    /\ IsNext(i) /\ tasks[i].kind = "update"
    /\ Apply(i, Segment(UpdateEntry(tasks[i], room, audio, participant_languages,
                                    translation_enabled),
                        participant_languages, assistants),
             assistants, sessions, scn)
    /\ UNCHANGED <<variants, Registry, transcripts, subscriptions, nEvents>>

\* first segment of _restart_all_assistants_for_vad_change
RestartBegin(i) ==
    /\ IsNext(i) /\ tasks[i].kind = "vad"
    /\ Apply(i, Segment([tasks[i] EXCEPT !.keys = Keys(assistants)],
                        participant_languages, assistants),
             assistants, sessions, scn)
    /\ UNCHANGED <<variants, Registry, transcripts, subscriptions, nEvents>>

\* session.start returns: the session is stored under its key (line 725)
StartOk(i) ==
    /\ tasks[i].pc = "starting"
    /\ LET assts == Put(assistants, tasks[i].route, tasks[i].sid)
           sess == [sessions EXCEPT ![tasks[i].sid].state = "active"]
       IN  Apply(i, Segment(Resumed(tasks[i]), participant_languages, assts), assts, sess, scn)
    /\ UNCHANGED <<variants, Registry, transcripts, subscriptions, nEvents>>

StartFail_Propagates(i) ==
    /\ tasks[i].pc = "starting"
    /\ sessions' = [sessions EXCEPT ![tasks[i].sid] = NoSession]
    /\ tasks' = RemoveAt(tasks, i)
    /\ scn' = Logged(scn, "fail", tasks[i].route)
    /\ UNCHANGED <<variants, Registry, transcripts, subscriptions, assistants, nEvents>>

\* session.start raises: caught and logged (lines 736-737)
StartFail(i) ==
    /\ tasks[i].pc = "starting"
    /\ LET sess == [sessions EXCEPT ![tasks[i].sid] = NoSession]
           g == Logged(scn, "fail", tasks[i].route)
       IN  Apply(i, Segment(Resumed(tasks[i]), participant_languages, assistants), assistants, sess, g)
    /\ UNCHANGED <<variants, Registry, transcripts, subscriptions, nEvents>>

\* assistant.aclose() returns in a pass or in the restart
CloseDone(i) ==
    /\ tasks[i].pc = "closing" /\ tasks[i].kind # "close"
    /\ LET sess == Gone(sessions, tasks[i].sid, RemoveAt(tasks, i))
       IN  Apply(i, Segment(Resumed(tasks[i]), participant_languages, assistants), assistants, sess, scn)
    /\ UNCHANGED <<variants, Registry, transcripts, subscriptions, nEvents>>

\* asyncio.sleep(0.5) returns: the restart calls
\* _update_assistants_for_all_languages (line 953)
SleepDone(i) ==
    /\ tasks[i].pc = "sleeping"
    /\ Apply(i, Segment(UpdateEntry(tasks[i], room, audio, participant_languages,
                                    translation_enabled),
                        participant_languages, assistants),
             assistants, sessions, scn)
    /\ UNCHANGED <<variants, Registry, transcripts, subscriptions, nEvents>>

\* close_assistant() calls assistant.aclose() (lines 189-191)
CloseTaskBegin(i) ==
    /\ IsNext(i) /\ tasks[i].kind = "close"
    /\ sessions' = [sessions EXCEPT ![tasks[i].sid].state =
                        IF @ = "closed" THEN "closed" ELSE "closing"]
    /\ tasks' = [tasks EXCEPT ![i].pc = "closing"]
    /\ UNCHANGED <<variants, Registry, transcripts, subscriptions, assistants, nEvents, scn>>

\* ... and that aclose() returns
CloseTaskDone(i) ==
    /\ tasks[i].pc = "closing" /\ tasks[i].kind = "close"
    /\ sessions' = Gone(sessions, tasks[i].sid, RemoveAt(tasks, i))
    /\ tasks' = RemoveAt(tasks, i)
    /\ scn' = IF scn.solo THEN [scn EXCEPT !.done = (Len(tasks) = 1)] ELSE scn
    /\ UNCHANGED <<variants, Registry, transcripts, subscriptions, assistants, nEvents>>

(***************************************************************************)
(* Room callbacks.  Each runs synchronously and schedules its coroutine.   *)
(***************************************************************************)
CanSpawn(n) == Len(tasks) + n <= MaxTasks

\* on_data_received from `self.participant_languages[participant_id] =
\* language` on (lines 172-194)
SetPreference(p, language, enabled) ==
    LET keys_to_remove == SelectSeq(Keys(assistants), LAMBDA k : k[1] = p)
        n == IF enabled THEN 1 ELSE Len(keys_to_remove)
        \* close_assistant reads the handler's variable `assistant` when the
        \* task runs, after the loop has ended: every task sees the session
        \* popped last
        assistant == assistants[keys_to_remove[Len(keys_to_remove)]]
        ev == [kind |-> "language", p |-> p,
               old |-> Get(participant_languages, p, None),
               oldEnabled |-> Get(translation_enabled, p, FALSE),
               new |-> language, enabled |-> enabled]
    IN  /\ CanSpawn(n)
        /\ participant_languages' = Put(participant_languages, p, language)
        /\ translation_enabled' = Put(translation_enabled, p, enabled)
        /\ IF enabled
           THEN /\ tasks' = Append(tasks, NewTask("update", 0))
                /\ UNCHANGED assistants
           ELSE /\ assistants' = [k \in DOMAIN assistants \ SeqSet(keys_to_remove) |-> assistants[k]]
                /\ tasks' = tasks \o [j \in 1..n |-> NewTask("close", assistant)]
        /\ nEvents' = nEvents + 1
        /\ scn' = LET g == Observe(ev, /\ participant_languages' = participant_languages
                                       /\ translation_enabled' = translation_enabled)
                  IN  IF g.solo /\ Len(tasks') = 0 THEN [g EXCEPT !.done = TRUE] ELSE g
        /\ UNCHANGED <<variants, transcripts, subscriptions, room, audio, host_vad_setting, sessions>>

\* on_data_received, a language_update / language_preference message with
\* both fields, sent by a participant in the room (lines 143-194)
LanguageUpdate(p, language, enabled) == p \in room /\ SetPreference(p, language, enabled)

\* on_data_received, host_vad_setting (lines 127-137)
VadUpdate(level) ==
    /\ CanSpawn(1)
    /\ host_vad_setting' = level
    /\ tasks' = Append(tasks, NewTask("vad", 0))
    /\ nEvents' = nEvents + 1
    /\ scn' = Observe([NoEvent EXCEPT !.kind = "vad", !.old = host_vad_setting, !.new = level],
                      level = host_vad_setting)
    /\ UNCHANGED <<variants, transcripts, subscriptions, room, audio, participant_languages, translation_enabled,
                   assistants, sessions>>

(***************************************************************************)
(* on_data_received as a whole (lines 116-197): a data packet with its     *)
(* sender and its payload.  A payload is a record of the fields the        *)
(* handler reads; json = FALSE is a payload json.loads rejects, Absent a   *)
(* field the JSON object does not have.                                    *)
(***************************************************************************)
Absent == "Absent"

NoMessage == [json |-> TRUE, type |-> Absent, language |-> Absent, enabled |-> Absent,
              level |-> Absent]

Messages ==
    {[NoMessage EXCEPT !.json = FALSE], [NoMessage EXCEPT !.type = "chat"]}
    \cup {[NoMessage EXCEPT !.type = "language_update", !.language = l, !.enabled = e] :
             l \in {"es", "fr", Absent}, e \in {"true", "false", Absent}}
    \cup {[NoMessage EXCEPT !.type = "host_vad_setting", !.level = v] :
             v \in {"low", "loud", Absent}}

Identity_Unchecked(sender) == sender

\* data.participant.identity (line 122); data.participant is None when the
\* sender is not among the room's remote participants
Identity(sender) == IF sender \in room THEN sender ELSE None

\* message.get('language', 'en') (line 146)
MessageLanguage(message) == IF message.language = Absent THEN "en" ELSE message.language

\* message.get('enabled', False) (line 147)
MessageEnabled(message) == IF message.enabled = Absent THEN FALSE ELSE message.enabled = "true"

\* message.get('level', 'medium') (line 128)
MessageLevel(message) == IF message.level = Absent THEN "medium" ELSE message.level

\* the handler returns, or logs the exception it caught (lines 137, 156,
\* 196-197), without any effect
Ignored(kind, sender) ==
    /\ nEvents' = nEvents + 1
    /\ scn' = LET g == Observe([NoEvent EXCEPT !.kind = kind, !.p = sender], TRUE)
              IN  IF g.solo THEN [g EXCEPT !.done = TRUE] ELSE g
    /\ UNCHANGED <<variants, transcripts, subscriptions, room, audio, participant_languages, translation_enabled,
                   host_vad_setting, assistants, sessions, tasks>>

DataReceived(sender, message) ==
    IF ~message.json THEN Ignored("malformed", sender)
    ELSE IF Identity(sender) = None THEN Ignored("late", sender)
    ELSE IF message.type = "host_vad_setting" THEN
        IF MessageLevel(message) \in VadLevels
        THEN VadUpdate(MessageLevel(message))
        ELSE Ignored("malformed", sender)
    ELSE IF message.type \in {"language_update", "language_preference"} THEN
        SetPreference(Identity(sender), MessageLanguage(message), MessageEnabled(message))
    ELSE Ignored("malformed", sender)

\* on_participant_connected (lines 199-208)
ParticipantConnected(p) ==
    /\ p \notin room
    /\ room' = room \cup {p}
    /\ IF IsAgent(p)
       THEN UNCHANGED tasks
       ELSE CanSpawn(1) /\ tasks' = Append(tasks, NewTask("update", 0))
    /\ nEvents' = nEvents + 1
    /\ scn' = LET g == Observe([NoEvent EXCEPT !.kind = "connected", !.p = p], FALSE)
              IN  IF g.solo /\ Len(tasks') = 0 THEN [g EXCEPT !.done = TRUE] ELSE g
    /\ UNCHANGED <<variants, transcripts, subscriptions, audio, participant_languages, translation_enabled,
                   host_vad_setting, assistants, sessions>>

\* on_track_published with an audio publication (lines 210-222)
TrackPublished(p) ==
    /\ p \in room
    /\ audio' = audio \cup {p}
    /\ IF IsAgent(p)
       THEN UNCHANGED tasks
       ELSE CanSpawn(1) /\ tasks' = Append(tasks, NewTask("update", 0))
    /\ nEvents' = nEvents + 1
    /\ scn' = LET g == Observe([NoEvent EXCEPT !.kind = "published", !.p = p], p \in audio)
              IN  IF g.solo /\ Len(tasks') = 0 THEN [g EXCEPT !.done = TRUE] ELSE g
    /\ UNCHANGED <<variants, transcripts, subscriptions, room, participant_languages, translation_enabled,
                   host_vad_setting, assistants, sessions>>

\* on_participant_disconnected (lines 224-237)
ParticipantDisconnected(p) ==
    /\ p \in room
    /\ CanSpawn(1)
    /\ room' = room \ {p}
    /\ audio' = audio \ {p}
    /\ participant_languages' = Pop(participant_languages, p)
    /\ translation_enabled' = Pop(translation_enabled, p)
    /\ tasks' = Append(tasks, NewTask("update", 0))
    /\ nEvents' = nEvents + 1
    /\ scn' = Observe([NoEvent EXCEPT !.kind = "disconnected", !.p = p], FALSE)
    /\ unsubscribed' = unsubscribed \ {p}
    /\ UNCHANGED <<variants, transcripts, filtered, host_vad_setting, assistants, sessions>>

(***************************************************************************)
(* Transcripts.  A text is a sequence of tokens, a word or a blank, so     *)
(* that concatenation, strip(), split() and len() are computed as the      *)
(* handlers compute them.  The handlers of one session share its           *)
(* user_data; every message is sent by a task of its own.  The             *)
(* translation_active messages of _send_translation_activity are not       *)
(* transcripts and are left out.                                           *)
(***************************************************************************)
Space == " "

\* characters of a token
TokenLen(t) ==
    CASE t = Space -> 1
      [] t = "hola" -> 4
      [] t = "mundo" -> 5
      [] t = "hello" -> 5
      [] t = "[silence]" -> 9
      [] OTHER -> 18

\* what user_input_transcribed / user_speech_committed carry
Originals == {<<>>, <<"hello">>}

\* what agent_speech_delta carries
Deltas == {<<>>, <<"hola">>, <<Space, "mundo">>, <<"[silence]">>, <<"internacionalizado">>}

\* what agent_speech_committed / conversation_item_added carry
FinalTexts == {<<>>, <<"hola", Space, "mundo">>, <<"[silence]">>}

\* len(text)
RECURSIVE CharLen(_)
CharLen(text) == IF text = <<>> THEN 0 ELSE TokenLen(Head(text)) + CharLen(Tail(text))

\* len(text.split())
WordCount(text) ==
    Cardinality({i \in 1..Len(text) : text[i] # Space /\ (i = 1 \/ text[i - 1] = Space)})

\* text.strip()
RECURSIVE Strip(_)
Strip(text) ==
    IF text = <<>> THEN text
    ELSE IF Head(text) = Space THEN Strip(Tail(text))
    ELSE IF text[Len(text)] = Space THEN Strip(SubSeq(text, 1, Len(text) - 1))
    ELSE text

\* is_meta_commentary (lines 373-413); "[silence]" stands for the phrases
is_meta_commentary(text) == text = <<>> \/ \E i \in 1..Len(text) : text[i] = "[silence]"

\* session.user_data as initialised at lines 363-370
NewUserData == [last_original |-> <<>>, current_translation |-> <<>>, sent_final |-> FALSE]

NoFinals == [built |-> 0, skipped |-> 0, turnAt |-> 0, resetAt |-> 0]

NoTranscripts ==
    /\ user_data = [n \in 1..MaxSessions |-> NewUserData]
    /\ sends = <<>>
    /\ outcomes = <<>>
    /\ nEmitted = 0
    /\ turn_finals = [n \in 1..MaxSessions |-> NoFinals]

\* the message built by _send_transcription_data (lines 766-776); the
\* timestamp is the position of the message among those built
Transcription(n, original_text, translated_text, partial) ==
    [session |-> n,
     text |-> translated_text,
     originalText |-> original_text,
     language |-> sessions[n].route[2],
     participant_id |-> sessions[n].route[1],
     target_participant |-> "all",
     partial |-> partial,
     timestamp |-> nEmitted + 1]

\* A handler of session n returns: user_data is d and `created` are the
\* messages of the tasks it created.  mark is "turn" when the handler is
\* on_agent_speech_started or has a final original transcript, "commit"
\* when it is on_user_speech_committed with a text (all three begin a
\* turn), "skip" when it had a final text and sent nothing because of
\* sent_final, else "same".
Returns(n, d, created, mark) ==
    /\ user_data' = [user_data EXCEPT ![n] = d]
    /\ sends' = sends \o created
    /\ nEmitted' = nEmitted + Len(created)
    /\ turn_finals' = [turn_finals EXCEPT ![n] =
          LET f == IF mark \in {"turn", "commit"}
                   THEN [@ EXCEPT !.built = 0, !.skipped = 0, !.turnAt = nEmitted]
                   ELSE @
          IN  [built |-> f.built + Cardinality({m \in 1..Len(created) : ~created[m].partial}),
               skipped |-> f.skipped + (IF mark = "skip" THEN 1 ELSE 0),
               turnAt |-> f.turnAt,
               resetAt |-> IF mark = "turn" THEN nEmitted ELSE f.resetAt]]
    /\ nEvents' = nEvents + 1
    /\ UNCHANGED <<variants, room, audio, participant_languages, translation_enabled, assistants,
                   host_vad_setting, sessions, tasks, scn, outcomes, subscriptions>>

\* on_original_transcribed (lines 416-447)
OnOriginalTranscribed(n, text, is_final) ==
    LET d == user_data[n]
        transcript == Strip(text)
    IN  /\ sessions[n].state = "active"
        /\ IF transcript = <<>> THEN Returns(n, d, <<>>, "same")
           ELSE IF is_final
           THEN Returns(n, [d EXCEPT !.last_original = transcript,
                                     !.sent_final = FALSE,
                                     !.current_translation = <<>>], <<>>, "turn")
           ELSE Returns(n, [d EXCEPT !.last_original = transcript], <<>>, "same")

\* on_user_speech_committed (lines 450-469)
OnUserSpeechCommitted(n, original) ==
    LET d == user_data[n]
    IN  /\ sessions[n].state = "active"
        /\ IF original # <<>>
           THEN Returns(n, [d EXCEPT !.last_original = original, !.sent_final = FALSE],
                        <<>>, "commit")
           ELSE Returns(n, d, <<>>, "same")

\* on_agent_speech_started (lines 477-489)
OnAgentSpeechStarted(n) ==
    /\ sessions[n].state = "active"
    /\ Returns(n, [user_data[n] EXCEPT !.current_translation = <<>>, !.sent_final = FALSE],
               <<>>, "turn")

\* on_agent_speech_delta (lines 491-511)
OnAgentSpeechDelta(n, delta) ==
    LET d == user_data[n]
        accumulated == d.current_translation \o delta
        original == d.last_original
    IN  /\ sessions[n].state = "active"
        /\ Len(accumulated) <= MaxTokens
        /\ IF delta # <<>> /\ ~is_meta_commentary(delta)
           THEN IF /\ WordCount(accumulated) >= 2 \/ CharLen(accumulated) >= 15
                   /\ original # <<>>
                THEN Returns(n, [d EXCEPT !.current_translation = accumulated],
                             <<Transcription(n, original, accumulated, TRUE)>>, "same")
                ELSE Returns(n, [d EXCEPT !.current_translation = accumulated], <<>>, "same")
           ELSE Returns(n, d, <<>>, "same")

AlreadySent_Never(d) == FALSE

\* `if session.user_data.get("sent_final")` (lines 517, 593)
AlreadySent(d) == d.sent_final

MarkSent_Not(d) == d

\* `session.user_data["sent_final"] = True` (lines 544, 552, 654, 663)
MarkSent(d) == [d EXCEPT !.sent_final = TRUE]

\* `if is_meta and text_length <= 15 and word_count <= 3` (lines 542, 652)
Filtered(text) == is_meta_commentary(text) /\ CharLen(text) <= 15 /\ WordCount(text) <= 3

\* on_agent_speech_committed (lines 513-585); text is what the event
\* carries (its text attribute, or the text / content of its model_dump)
OnAgentSpeechCommitted(n, text) ==
    LET d == user_data[n]
        final == Strip(IF text # <<>> THEN text ELSE d.current_translation)
        original == IF d.last_original # <<>> THEN d.last_original ELSE final
    IN  /\ sessions[n].state = "active"
        /\ IF final = <<>> THEN Returns(n, d, <<>>, "same")
           ELSE IF AlreadySent(d)
           THEN Returns(n, d, <<>>, IF Filtered(final) THEN "same" ELSE "skip")
           ELSE IF Filtered(final)
           THEN Returns(n, MarkSent(d), <<>>, "same")
           ELSE Returns(n, MarkSent(d),
                        <<Transcription(n, original, final, FALSE)>>, "same")

\* on_conversation_item_added (lines 589-682); role and content are those
\* of the item the event carries
OnConversationItemAdded(n, role, content) ==
    LET d == user_data[n]
        text == Strip(content)
        original == IF d.last_original # <<>> THEN d.last_original ELSE text
    IN  /\ sessions[n].state = "active"
        /\ IF role # "assistant" \/ text = <<>> THEN Returns(n, d, <<>>, "same")
           ELSE IF AlreadySent(d)
           THEN Returns(n, d, <<>>, IF Filtered(text) THEN "same" ELSE "skip")
           ELSE IF Filtered(text)
           THEN Returns(n, MarkSent(d), <<>>, "same")
           ELSE Returns(n, MarkSent(d),
                        <<Transcription(n, original, text, FALSE)>>, "same")

DestinationIdentities_Listeners(message) ==
    {p \in DOMAIN participant_languages :
        participant_languages[p] = message.language /\ Get(translation_enabled, p, FALSE)}

\* the destination_identities argument of publish_data (lines 781-786):
\* none is given
DestinationIdentities(message) == {}

\* who receives a data packet: the participants named, or everyone in the
\* room when none is named
Recipients(message) ==
    IF DestinationIdentities(message) = {} THEN room
    ELSE DestinationIdentities(message) \cap room

\* The oldest _send_transcription_data task ends: sends, the message,
\* whether publish_data returned and who received the packet are recorded.
Published(rest, ok) ==
    /\ sends # <<>>
    /\ sends' = rest
    /\ outcomes' = Append(outcomes, [message |-> Head(sends), ok |-> ok,
                                     recipients |-> IF ok THEN Recipients(Head(sends))
                                                    ELSE {}])
    /\ UNCHANGED <<variants, room, audio, participant_languages, translation_enabled, assistants,
                   host_vad_setting, sessions, tasks, nEvents, scn, user_data, nEmitted,
                   turn_finals, subscriptions>>

\* publish_data returns (lines 781-788)
PublishOk == Published(Tail(sends), TRUE)

PublishFail_Resend == Published(Append(Tail(sends), Head(sends)), FALSE)

\* publish_data raises: logged and re-raised into the task, which nothing
\* awaits (lines 789-791)
PublishFail == Published(Tail(sends), FALSE)

(***************************************************************************)
(* _update_assistant_subscriptions (lines 823-916).  The agent has one     *)
(* connection to the room: `subscribed` is a flag of each remote audio     *)
(* publication, shared by all sessions.  ctx.connect asks for              *)
(* AutoSubscribe.AUDIO_ONLY (line 109), so an audio publication is         *)
(* subscribed unless set_subscribed(False) has been called on it.  The     *)
(* function contains no await.  No code of the agent calls it.             *)
(***************************************************************************)
NoSubscriptions == unsubscribed = {} /\ filtered = {}

\* publication.subscribed of p's audio publication
Subscribed(p) == p \in audio /\ p \notin unsubscribed

\* the participants whose audio publications the second loop visits
\* (lines 875-890)
Visited == {p \in room \cap audio : ~IsAgent(p) /\ Has(participant_languages, p)}

\* _update_assistant_subscriptions(ctx, session, target_language) for the
\* session n
UpdateAssistantSubscriptions(n) ==
    LET target_language == sessions[n].route[2]
        same == {p \in Visited : participant_languages[p] = target_language}
    IN  /\ sessions[n].state = "active"
        /\ unsubscribed' = (unsubscribed \cup same) \ (Visited \ same)
        /\ filtered' = filtered \cup {n}
        /\ UNCHANGED <<variants, room, audio, participant_languages, translation_enabled, assistants,
                       host_vad_setting, sessions, tasks, nEvents, scn, transcripts>>

\* room_io.RoomInputOptions(participant_identity=speaker_id) (line 703):
\* the session hears its speaker only, through the agent's subscription
Receives(n) ==
    {p \in room \cap audio : p = sessions[n].route[1] /\ Subscribed(p)}

(***************************************************************************)
(* RealtimeTranslationAgent (realtime_agent_realtime.py): the data channel *)
(* handler on_data_received and the coroutines it schedules.  The object's *)
(* fields are the fields of the record `realtime`; assistants maps the key *)
(* "{participant_id}:{source_participant_id}", here the pair <<participant, *)
(* source>>, to its AgentSession.  A coroutine is the list of the          *)
(* statements it has still to execute (ops); a statement that awaits ends  *)
(* the segment and names what the coroutine waits for (wait).  Dicts are   *)
(* iterated in ParticipantOrder.                                           *)
(***************************************************************************)
RealtimeRoom == {"X", "Y", "agent-1"}

\* the variables of SimpleTranslationAgent
simple ==
    <<room, audio, participant_languages, translation_enabled, assistants,
      host_vad_setting, sessions, tasks, nEvents, scn, transcripts, subscriptions>>

Max(a, b) == IF a >= b THEN a ELSE b

\* the level names _get_vad_config has a branch for (lines 1304-1359)
RealtimeLevels ==
    {"quiet_room", "normal", "noisy_office", "cafe_or_crowd", "low", "high", "medium"}

\* _get_vad_config (lines 1285-1369), thresholds in hundredths
RealtimeVadConfig(setting) ==
    LET base_silence_ms == 700
    IN  IF setting = "quiet_room"
        THEN [threshold |-> 35, silence_duration_ms |-> Max(600, base_silence_ms - 200),
              prefix_padding_ms |-> 450]
        ELSE IF setting = "normal"
        THEN [threshold |-> 50, silence_duration_ms |-> Max(700, base_silence_ms),
              prefix_padding_ms |-> 500]
        ELSE IF setting = "noisy_office"
        THEN [threshold |-> 75, silence_duration_ms |-> Max(1000, base_silence_ms + 300),
              prefix_padding_ms |-> 500]
        ELSE IF setting = "cafe_or_crowd"
        THEN [threshold |-> 90, silence_duration_ms |-> Max(1400, base_silence_ms + 400),
              prefix_padding_ms |-> 600]
        ELSE IF setting = "low"
        THEN [threshold |-> 75, silence_duration_ms |-> Max(1000, base_silence_ms + 300),
              prefix_padding_ms |-> 500]
        ELSE IF setting = "high"
        THEN [threshold |-> 40, silence_duration_ms |-> Max(400, base_silence_ms - 300),
              prefix_padding_ms |-> 450]
        ELSE IF setting = "medium"
        THEN [threshold |-> 50, silence_duration_ms |-> Max(500, base_silence_ms - 200),
              prefix_padding_ms |-> 500]
        ELSE [threshold |-> 75, silence_duration_ms |-> Max(1000, base_silence_ms + 300),
              prefix_padding_ms |-> 500]

NoRealtimeSession == [key |-> <<>>, target |-> None, state |-> "free", vad |-> None]

\* __init__ (lines 48-62)
NewRealtime ==
    [participant_languages |-> EmptyDict,
     translation_enabled |-> EmptyDict,
     assistants |-> EmptyDict,
     host_vad_setting |-> "normal",
     host_participant_id |-> None,
     sessions |-> [n \in 1..MaxRealtimeSessions |-> NoRealtimeSession],
     tasks |-> <<>>,
     shutdown |-> "none",
     nEvents |-> 0]

\* one statement of a coroutine
Op(do, p, language, key) == [do |-> do, p |-> p, language |-> language, key |-> key]

RealtimeTask(ops) ==
    [ops |-> ops, wait |-> "new", sid |-> 0,
     current_participants |-> EmptyDict, current_enabled |-> EmptyDict]

\* asyncio.create_task(self.create_realtime_assistant(ctx, participant_id,
\* target_language, source_participant_id=source, ...))
CreateTask(participant_id, target_language, source) ==
    RealtimeTask(<<Op("replace", participant_id, target_language, <<participant_id, source>>),
                   Op("start", participant_id, target_language, <<participant_id, source>>)>>)

\* "some assistant from `source` already serves a participant whose language
\* is target_language" (lines 617-627 and 703-713)
AssistantExists(r, source, target_language) ==
    \E k \in DOMAIN r.assistants :
        k[2] = source /\ Get(r.participant_languages, k[1], None) = target_language

\* _create_shared_assistant_for_target_language (lines 593-644): the tasks it
\* creates
CreateShared(r, any_participant_id, target_language) ==
    LET other_participants ==
            SelectSeq(ParticipantOrder,
                      LAMBDA s : s \in RealtimeRoom /\ ~IsAgent(s) /\ s # any_participant_id)
        needed == SelectSeq(other_participants,
                      LAMBDA s : /\ Get(r.participant_languages, s, None) # target_language
                                 /\ ~AssistantExists(r, s, target_language))
    IN  [n \in 1..Len(needed) |-> CreateTask(any_participant_id, target_language, needed[n])]

\* _create_assistants_from_participant_to_others (lines 646-737): the tasks
\* it creates; unified_mode_active is never set
CreateFrom(r, source_participant_id) ==
    LET needed ==
            SelectSeq(ParticipantOrder,
                LAMBDA o : /\ Has(r.participant_languages, o)
                           /\ o # source_participant_id
                           /\ Get(r.translation_enabled, o, FALSE)
                           /\ Get(r.participant_languages, source_participant_id, None)
                                  # r.participant_languages[o]
                           /\ ~AssistantExists(r, source_participant_id,
                                               r.participant_languages[o]))
    IN  [n \in 1..Len(needed) |->
            CreateTask(needed[n], r.participant_languages[needed[n]], source_participant_id)]

\* every key, participants and sources in ParticipantOrder
RealtimeKeyOrder ==
    [n \in 1..(Len(ParticipantOrder) * Len(ParticipantOrder)) |->
        <<ParticipantOrder[((n - 1) \div Len(ParticipantOrder)) + 1],
          ParticipantOrder[((n - 1) % Len(ParticipantOrder)) + 1]>>]

\* list(self.assistants.keys())
RealtimeKeys(r) == SelectSeq(RealtimeKeyOrder, LAMBDA k : k \in DOMAIN r.assistants)

PopOps(do, keys) == [n \in 1..Len(keys) |-> Op(do, None, None, keys[n])]

RealtimeFreeIds(r) == {n \in 1..MaxRealtimeSessions : r.sessions[n].state = "free"}

\* `session = AgentSession(...)` (lines 794-798): a new object
RealtimeNewId(r) == CHOOSE n \in RealtimeFreeIds(r) : \A m \in RealtimeFreeIds(r) : n <= m

\* the recreation loop of _restart_all_assistants_for_vad_change (lines
\* 1408-1413), over the dicts copied at entry
RECURSIVE Recreate(_, _, _)
Recreate(r, t, ps) ==
    IF ps = <<>> THEN <<>>
    ELSE LET p == Head(ps)
         IN  (IF Get(t.current_enabled, p, FALSE)
              THEN CreateShared(r, p, t.current_participants[p]) \o CreateFrom(r, p)
              ELSE <<>>) \o Recreate(r, t, Tail(ps))

(***************************************************************************)
(* Run(r, i): coroutine i executes its statements until one awaits or the  *)
(* coroutine ends; the result is the agent's state after the segment.      *)
(***************************************************************************)
RECURSIVE Run(_, _)
Run(r, i) ==
    LET t == r.tasks[i]
    IN  IF t.ops = <<>> THEN [r EXCEPT !.tasks = RemoveAt(@, i)]
        ELSE
        LET op == Head(t.ops)
            rest == Tail(t.ops)
            Suspended(r2, wait, sid) ==
                [r2 EXCEPT !.tasks[i].ops = rest, !.tasks[i].wait = wait, !.tasks[i].sid = sid]
            Closing(sid) ==
                Suspended([r EXCEPT !.assistants = Pop(@, op.key),
                                    !.sessions[sid].state = "closing"], "close", sid)
        IN  CASE op.do \in {"broadcast", "sleep"} ->
                 \* await self._broadcast_room_mode(ctx) (line 411, the only
                 \* branch of _check_and_update_unified_mode that runs);
                 \* await asyncio.sleep
                 Suspended(r, op.do, 0)
              [] op.do = "stop_keys" ->
                 \* stop_realtime_assistant (lines 1207-1209): the keys with
                 \* this participant as listener
                 LET keys == SelectSeq(RealtimeKeys(r), LAMBDA k : k[1] = op.p)
                 IN  Run([r EXCEPT !.tasks[i].ops = PopOps("pop_checked", keys) \o rest], i)
              [] op.do = "pop_checked" ->
                 \* lines 1213-1216
                 IF Has(r.assistants, op.key)
                 THEN Closing(r.assistants[op.key])
                 ELSE Run([r EXCEPT !.tasks[i].ops = rest], i)
              [] op.do = "same_language_keys" ->
                 \* lines 152-159: assistants from this participant to a
                 \* listener of the new language
                 LET keys == SelectSeq(RealtimeKeys(r),
                                 LAMBDA k : /\ k[2] = op.p
                                            /\ Get(r.participant_languages, k[1], None)
                                                   = op.language)
                 IN  Run([r EXCEPT !.tasks[i].ops = PopOps("pop", keys) \o rest], i)
              [] op.do = "pop" ->
                 \* `assistant = self.assistants.pop(key)` (lines 162, 1400):
                 \* KeyError ends the coroutine
                 IF Has(r.assistants, op.key)
                 THEN Closing(r.assistants[op.key])
                 ELSE [r EXCEPT !.tasks = RemoveAt(@, i)]
              [] op.do = "restart_keys" ->
                 \* _restart_all_assistants_for_vad_change, lines 1395-1400
                 Run([r EXCEPT !.tasks[i].ops = PopOps("pop", RealtimeKeys(r)) \o rest,
                               !.tasks[i].current_participants = r.participant_languages,
                               !.tasks[i].current_enabled = r.translation_enabled], i)
              [] op.do = "cleanup_keys" ->
                 \* the finally of entrypoint, lines 285-287
                 Run([r EXCEPT !.tasks[i].ops = PopOps("pop", RealtimeKeys(r)) \o rest], i)
              [] op.do = "complete" ->
                 \* "Agent cleanup complete." (line 288)
                 Run([r EXCEPT !.shutdown = "complete", !.tasks[i].ops = rest], i)
              [] op.do = "recreate" ->
                 Run([r EXCEPT !.tasks = @ \o Recreate(r, t, ParticipantOrder),
                               !.tasks[i].ops = rest], i)
              [] op.do = "create" ->
                 \* lines 178-179 and 182-183
                 Run([r EXCEPT !.tasks = @ \o CreateShared(r, op.p, op.language)
                                           \o CreateFrom(r, op.p),
                               !.tasks[i].ops = rest], i)
              [] op.do = "replace" ->
                 \* create_realtime_assistant, lines 753-756
                 IF Has(r.assistants, op.key)
                 THEN Closing(r.assistants[op.key])
                 ELSE Run([r EXCEPT !.tasks[i].ops = rest], i)
              [] op.do = "start" ->
                 \* lines 773-798 and 1163-1176: the session is built with
                 \* the current profile and session.start is awaited
                 LET sid == RealtimeNewId(r)
                 IN  [r EXCEPT !.sessions[sid] =
                                   [key |-> op.key, target |-> op.language,
                                    state |-> "starting",
                                    vad |-> RealtimeVadConfig(r.host_vad_setting)],
                               !.tasks[i].wait = "start", !.tasks[i].sid = sid]

\* no coroutine is pending
RealtimeIdle == Len(realtime.tasks) = 0

\* `if new_setting in ['low', 'medium', 'high']` (line 88)
Accepts(new_setting) == new_setting \in {"low", "medium", "high"}

\* message.get('level', 'medium') (line 87)
RealtimeMessageLevel(level) == IF level = Absent THEN "medium" ELSE level

\* on_data_received, a host_vad_setting message (lines 85-97)
RealtimeVadUpdate(participant_id, level) ==
    LET new_setting == RealtimeMessageLevel(level)
    IN  /\ participant_id \in RealtimeRoom
        /\ realtime' =
             IF Accepts(new_setting)
             THEN [realtime EXCEPT !.host_vad_setting = new_setting,
                                   !.host_participant_id = participant_id,
                                   !.tasks = Append(@, RealtimeTask(
                                                 <<Op("restart_keys", None, None, <<>>),
                                                   Op("sleep", None, None, <<>>),
                                                   Op("recreate", None, None, <<>>)>>)),
                                   !.nEvents = @ + 1]
             ELSE [realtime EXCEPT !.nEvents = @ + 1]
        /\ UNCHANGED <<simple, daily, manual>>

\* on_data_received, a language_update or language_preference message
\* (lines 100-190)
RealtimeLanguageUpdate(participant_id, language, enabled) ==
    LET old_language == Get(realtime.participant_languages, participant_id, None)
        language_changed == old_language # None /\ old_language # language
        handle_language_update ==
            RealtimeTask(
                <<Op("broadcast", None, None, <<>>)>>
                \o (IF language_changed
                    THEN <<Op("stop_keys", participant_id, None, <<>>),
                           Op("same_language_keys", participant_id, language, <<>>),
                           Op("sleep", None, None, <<>>)>>
                    ELSE <<>>)
                \o <<Op("create", participant_id, language, <<>>)>>)
        stop_realtime_assistant ==
            RealtimeTask(<<Op("stop_keys", participant_id, None, <<>>)>>)
    IN  /\ participant_id \in RealtimeRoom
        /\ realtime' =
             [realtime EXCEPT
                 !.participant_languages = Put(@, participant_id, language),
                 !.translation_enabled = Put(@, participant_id, enabled),
                 !.tasks = Append(@, IF enabled THEN handle_language_update
                                     ELSE stop_realtime_assistant),
                 !.nEvents = @ + 1]
        /\ UNCHANGED <<simple, daily, manual>>

\* the entrypoint is cancelled: `await asyncio.Event().wait()` raises
\* CancelledError and the finally runs to its first await (lines 279-289)
RealtimeShutdown ==
    LET r == [realtime EXCEPT
                 !.shutdown = "cleaning",
                 !.tasks = Append(@, RealtimeTask(<<Op("cleanup_keys", None, None, <<>>),
                                                    Op("complete", None, None, <<>>)>>))]
    IN  /\ realtime.shutdown = "none"
        /\ realtime' = Run(r, Len(r.tasks))
        /\ UNCHANGED <<simple, daily, manual>>

\* the event loop runs ready tasks first-in first-out
RealtimeIsNext(i) ==
    /\ realtime.tasks[i].wait = "new"
    /\ \A j \in 1..(i - 1) : realtime.tasks[j].wait # "new"

\* first segment of a coroutine
RealtimeBegin(i) ==
    /\ RealtimeIsNext(i)
    /\ realtime' = Run(realtime, i)
    /\ UNCHANGED <<simple, daily, manual>>

\* _broadcast_room_mode or asyncio.sleep returns
RealtimeResume(i) ==
    /\ realtime.tasks[i].wait \in {"broadcast", "sleep"}
    /\ realtime' = Run(realtime, i)
    /\ UNCHANGED <<simple, daily, manual>>

\* assistant.aclose() returns
RealtimeCloseDone(i) ==
    /\ realtime.tasks[i].wait = "close"
    /\ realtime' = Run([realtime EXCEPT !.sessions[realtime.tasks[i].sid] = NoRealtimeSession], i)
    /\ UNCHANGED <<simple, daily, manual>>

\* session.start returns: the session is stored under its key (line 1181)
RealtimeStartOk(i) ==
    LET t == realtime.tasks[i]
    IN  /\ t.wait = "start"
        /\ realtime' = [realtime EXCEPT !.assistants = Put(@, Head(t.ops).key, t.sid),
                                        !.sessions[t.sid].state = "active",
                                        !.tasks = RemoveAt(@, i)]
        /\ UNCHANGED <<simple, daily, manual>>

\* session.start raises: logged twice, nothing stored (lines 1177-1189)
RealtimeStartFail(i) ==
    LET t == realtime.tasks[i]
    IN  /\ t.wait = "start"
        /\ realtime' = [realtime EXCEPT !.sessions[t.sid] = NoRealtimeSession,
                                        !.tasks = RemoveAt(@, i)]
        /\ UNCHANGED <<simple, daily, manual>>

(***************************************************************************)
(* TranslationAgent of src/translation-agent/agent.py and its              *)
(* OpenAIRealtimeClient objects (openai_realtime.py).  The record `daily`  *)
(* holds the agent's realtime_clients dict, the client objects by          *)
(* identifier and the process_audio_with_openai coroutines, one per audio  *)
(* frame (audio_renderer, agent.py lines 494-509).  A client's fields      *)
(* running and websocket are the object's; established, config_sent,       *)
(* attempts, timed_out, result, sent and returned_dead are history: what   *)
(* connect() did and returned, the audio messages sent on the socket, and  *)
(* whether get_or_create_realtime_client has returned the client after its *)
(* connection was closed.                                                  *)
(***************************************************************************)
Local == "local"

NoClient ==
    [key |-> <<>>, running |-> FALSE, websocket |-> "none", listening |-> FALSE,
     established |-> FALSE, config_sent |-> FALSE, attempts |-> 0, timed_out |-> FALSE,
     result |-> "none", sent |-> 0, returned_dead |-> FALSE]

\* TranslationAgent.__init__ (agent.py lines 36-50); participants is what
\* call_client.participants() returns, api_key_valid whether
\* config.OPENAI_API_KEY passes the test of connect() (openai_realtime.py
\* line 34)
NewDaily ==
    [participants |-> {Local},
     api_key_valid |-> TRUE,
     realtime_clients |-> EmptyDict,
     clients |-> [c \in 1..MaxClients |-> NoClient],
     tasks |-> <<>>,
     nFrames |-> 0]

DailyTask(speaker_id) ==
    [speaker_id |-> speaker_id, pc |-> "new", listeners |-> <<>>, client |-> 0]

UnusedClients(d) == {c \in 1..MaxClients : d.clients[c].key = <<>>}

\* `client = OpenAIRealtimeClient(...)` (agent.py lines 111-114): a new object
NewClient(d) == CHOOSE c \in UnusedClients(d) : \A m \in UnusedClients(d) : c <= m

(***************************************************************************)
(* process_audio_with_openai from the point where                          *)
(* get_or_create_realtime_client has returned `client` (0 for None) for    *)
(* the listener at the head of t.listeners, to the next await or the end   *)
(* of the coroutine (agent.py lines 159-234).                              *)
(***************************************************************************)
RECURSIVE Listen(_, _)

\* client.send_audio (openai_realtime.py lines 159-188) and the rest of the
\* loop body
Obtained(d, i, client) ==
    IF client # 0 /\ d.clients[client].running /\ d.clients[client].websocket # "none"
    THEN \* await self.websocket.send(...)
         [d EXCEPT !.tasks[i].pc = "sending", !.tasks[i].client = client]
    ELSE Listen([d EXCEPT !.tasks[i].listeners = Tail(@), !.tasks[i].client = 0], i)

\* get_or_create_realtime_client for the listener at the head of the list
\* (agent.py lines 98-147), then connect() up to its first await
\* (openai_realtime.py lines 26-75)
Listen(d, i) ==
    LET t == d.tasks[i]
    IN  IF t.listeners = <<>> THEN [d EXCEPT !.tasks = RemoveAt(@, i)]
        ELSE LET client_key == <<t.speaker_id, Head(t.listeners)>>
             IN  IF Has(d.realtime_clients, client_key)
                 THEN LET known == d.realtime_clients[client_key]
                      IN  Obtained([d EXCEPT !.clients[known].returned_dead =
                                                 @ \/ d.clients[known].websocket = "closed"],
                                   i, known)
                 ELSE LET client == NewClient(d)
                      IN  IF d.api_key_valid
                          THEN [d EXCEPT !.clients[client] =
                                             [NoClient EXCEPT !.key = client_key, !.attempts = 1],
                                         !.tasks[i].pc = "connecting",
                                         !.tasks[i].client = client]
                          ELSE \* ValueError, caught: connect() returns False
                               Obtained([d EXCEPT !.clients[client] =
                                             [NoClient EXCEPT !.key = client_key,
                                                              !.result = "False"]],
                                        i, 0)

\* the listeners of one frame: the speaker when alone with the bot, else
\* every other participant (agent.py lines 166-206)
Listeners(d, speaker_id) ==
    IF Cardinality(d.participants) <= 2 THEN <<speaker_id>>
    ELSE SelectSeq(ParticipantOrder,
                   LAMBDA l : l \in d.participants /\ l # Local /\ l # speaker_id)

\* connect() returns False, leaving self.running as it is (openai_realtime.py
\* lines 127-131); get_or_create_realtime_client returns None (agent.py
\* lines 155-157)
Failed(d, i) ==
    Obtained([d EXCEPT !.clients[d.tasks[i].client].result = "False"], i, 0)

\* audio_renderer schedules process_audio_with_openai for a frame of pid
\* (agent.py lines 494-509)
AudioFrame(pid) ==
    /\ pid \in daily.participants \ {Local}
    /\ daily' = [daily EXCEPT !.tasks = Append(@, DailyTask(pid)), !.nFrames = @ + 1]
    /\ UNCHANGED <<simple, realtime, manual>>

DailyIsNext(i) ==
    /\ daily.tasks[i].pc = "new"
    /\ \A j \in 1..(i - 1) : daily.tasks[j].pc # "new"

\* first segment of process_audio_with_openai
FrameBegin(i) ==
    /\ DailyIsNext(i)
    /\ daily' = Listen([daily EXCEPT !.tasks[i].listeners =
                                       Listeners(daily, daily.tasks[i].speaker_id)], i)
    /\ UNCHANGED <<simple, realtime, manual>>

\* websockets.connect returns, at the first attempt or at the retry:
\* self.running = True, then await self._send_config() (openai_realtime.py
\* lines 59-76, 83-97, 113-117)
ConnectOk(i) ==
    LET client == daily.tasks[i].client
    IN  /\ daily.tasks[i].pc \in {"connecting", "retrying"}
        /\ daily' = [daily EXCEPT !.clients[client].websocket = "open",
                                  !.clients[client].established = TRUE,
                                  !.clients[client].running = TRUE,
                                  !.tasks[i].pc = "configuring"]
        /\ UNCHANGED <<simple, realtime, manual>>

\* asyncio.TimeoutError at the first attempt: one more attempt
\* (openai_realtime.py lines 77-97)
ConnectTimeout(i) ==
    LET client == daily.tasks[i].client
    IN  /\ daily.tasks[i].pc = "connecting"
        /\ daily' = [daily EXCEPT !.clients[client].attempts = @ + 1,
                                  !.clients[client].timed_out = TRUE,
                                  !.tasks[i].pc = "retrying"]
        /\ UNCHANGED <<simple, realtime, manual>>

\* InvalidStatusCode or another exception at the first attempt, any exception
\* at the retry: re-raised, caught by the outer handler, connect() returns
\* False (openai_realtime.py lines 98-111, 127-131)
ConnectError(i) ==
    /\ daily.tasks[i].pc \in {"connecting", "retrying"}
    /\ daily' = Failed(daily, i)
    /\ UNCHANGED <<simple, realtime, manual>>

\* _send_config returns: the listener task is created, connect() returns
\* True and the client is stored (openai_realtime.py lines 119-126, agent.py
\* lines 150-154)
ConfigOk(i) ==
    LET client == daily.tasks[i].client
    IN  /\ daily.tasks[i].pc = "configuring"
        /\ daily' = Obtained([daily EXCEPT
                                 !.clients[client].config_sent = TRUE,
                                 !.clients[client].listening = TRUE,
                                 !.clients[client].result = "True",
                                 !.realtime_clients =
                                     Put(@, daily.clients[client].key, client)],
                             i, client)
        /\ UNCHANGED <<simple, realtime, manual>>

\* websocket.send raises in _send_config: connect() returns False
\* (openai_realtime.py lines 127-131)
ConfigFail(i) ==
    /\ daily.tasks[i].pc = "configuring"
    /\ daily' = Failed([daily EXCEPT !.clients[daily.tasks[i].client].websocket = "closed"], i)
    /\ UNCHANGED <<simple, realtime, manual>>

\* websocket.send of send_audio returns, or raises on a closed connection
\* and the exception is printed (openai_realtime.py lines 163-188)
SendDone(i) ==
    LET client == daily.tasks[i].client
    IN  /\ daily.tasks[i].pc = "sending"
        /\ daily' = Listen([daily EXCEPT
                               !.clients[client].sent =
                                   IF daily.clients[client].websocket = "open"
                                   THEN @ + 1 ELSE @,
                               !.tasks[i].listeners = Tail(@),
                               !.tasks[i].client = 0], i)
        /\ UNCHANGED <<simple, realtime, manual>>

\* The provider connection of a client drops.  _listen_for_responses sets
\* running to False when the iteration raises (ConnectionClosed with an
\* error code, lines 204-209); when the connection is closed normally the
\* iteration just ends and running is left True (lines 193-195).
Drop(client, error) ==
    /\ daily.clients[client].listening
    /\ daily.clients[client].websocket = "open"
    /\ daily' = [daily EXCEPT !.clients[client].websocket = "closed",
                              !.clients[client].listening = FALSE,
                              !.clients[client].running = IF error THEN FALSE ELSE @]
    /\ UNCHANGED <<simple, realtime, manual>>

(***************************************************************************)
(* TranslationAgent of realtime_agent.py in manual mode                    *)
(* (USE_VOICEASSISTANT=false).  The record `manual` holds the remote       *)
(* participants of the room, those whose audio track is subscribed, the    *)
(* dicts translation_enabled and audio_processors, and the                 *)
(* process_speaker_audio tasks ever created: a task is its index in        *)
(* manual.tasks, its pc the await it is suspended at ("new": created and   *)
(* not yet run; "running": in the frame loop; "cancelled": in the frame    *)
(* loop with a cancellation requested; "cleaning": awaiting the buffer     *)
(* processor in the inner finally; "done").                                *)
(***************************************************************************)
ManualRoom == {"X", "Y"}

\* TranslationAgent.__init__ (realtime_agent.py lines 42-62)
NewManual ==
    [participants |-> {},
     tracks |-> {},
     translation_enabled |-> EmptyDict,
     audio_processors |-> EmptyDict,
     tasks |-> <<>>,
     nEvents |-> 0]

\* asyncio.create_task(self.process_speaker_audio(ctx, track, speaker_id))
ManualTask(speaker_id) == [speaker_id |-> speaker_id, pc |-> "new"]

\* needs_translation (lines 371-374, 571-574)
NeedsTranslation(m, speaker_id) ==
    \E pid \in DOMAIN m.translation_enabled :
        m.translation_enabled[pid] /\ pid # speaker_id

\* stop_audio_processing (lines 493-503)
StopAudioProcessing(m, participant_id) ==
    IF Has(m.audio_processors, participant_id)
    THEN LET task == m.audio_processors[participant_id]
         IN  [m EXCEPT !.tasks[task].pc = IF @ = "running" THEN "cancelled" ELSE @,
                       !.audio_processors = Pop(@, participant_id)]
    ELSE m

\* the speakers a language_update of participant_id starts processing for
\* (lines 256-277): every other remote participant with an audio track
ManualSpeakers(m, participant_id) ==
    SelectSeq(ParticipantOrder,
              LAMBDA o : /\ o \in m.participants
                         /\ ~IsAgent(o)
                         /\ o # participant_id
                         /\ o \in m.tracks)

ManualCreated(speakers) == [k \in 1..Len(speakers) |-> ManualTask(speakers[k])]

\* on_data_received, type language_update, manual mode (lines 196-296)
ManualLanguageUpdate(participant_id, enabled) ==
    LET m == [manual EXCEPT !.translation_enabled = Put(@, participant_id, enabled),
                            !.nEvents = @ + 1]
        speakers == ManualSpeakers(m, participant_id)
    IN  /\ participant_id \in manual.participants
        /\ Len(manual.tasks) + Len(speakers) <= MaxManualTasks
        /\ manual' = IF enabled
                     THEN [m EXCEPT !.tasks = @ \o ManualCreated(speakers)]
                     ELSE StopAudioProcessing(m, participant_id)
        /\ UNCHANGED <<simple, realtime, daily>>

\* on_participant_connected does nothing in manual mode (lines 301-326)
ManualConnected(participant_id) ==
    /\ participant_id \notin manual.participants
    /\ manual' = [manual EXCEPT !.participants = @ \cup {participant_id},
                                !.nEvents = @ + 1]
    /\ UNCHANGED <<simple, realtime, daily>>

\* on_participant_disconnected, manual mode (lines 328-349)
ManualDisconnected(participant_id) ==
    /\ participant_id \in manual.participants
    /\ manual' = StopAudioProcessing(
                     [manual EXCEPT !.participants = @ \ {participant_id},
                                    !.tracks = @ \ {participant_id},
                                    !.translation_enabled = Pop(@, participant_id),
                                    !.nEvents = @ + 1],
                     participant_id)
    /\ UNCHANGED <<simple, realtime, daily>>

\* on_track_subscribed for an audio track (lines 355-389)
ManualTrackSubscribed(speaker_id) ==
    LET m == [manual EXCEPT !.tracks = @ \cup {speaker_id}, !.nEvents = @ + 1]
    IN  /\ speaker_id \in manual.participants \ manual.tracks
        /\ Len(manual.tasks) < MaxManualTasks
        /\ manual' = IF ~IsAgent(speaker_id) /\ NeedsTranslation(manual, speaker_id)
                     THEN [m EXCEPT !.tasks = Append(@, ManualTask(speaker_id))]
                     ELSE m
        /\ UNCHANGED <<simple, realtime, daily>>

ManualIsNext(t) ==
    /\ manual.tasks[t].pc = "new"
    /\ \A j \in 1..(t - 1) : manual.tasks[j].pc # "new"

\* process_speaker_audio up to the frame loop (lines 505-559)
ProcessSpeakerAudio(t) ==
    LET speaker_id == manual.tasks[t].speaker_id
    IN  /\ ManualIsNext(t)
        /\ manual' = IF Has(manual.audio_processors, speaker_id)
                     THEN [manual EXCEPT !.tasks[t].pc = "done"]
                     ELSE [manual EXCEPT !.audio_processors = Put(@, speaker_id, t),
                                         !.tasks[t].pc = "running"]
        /\ UNCHANGED <<simple, realtime, daily>>

\* a frame arrives and nobody needs the translation any more: break, then
\* the inner finally cancels and awaits the buffer processor (lines 569-605)
ManualFrame(t) ==
    /\ manual.tasks[t].pc = "running"
    /\ ~NeedsTranslation(manual, manual.tasks[t].speaker_id)
    /\ manual' = [manual EXCEPT !.tasks[t].pc = "cleaning"]
    /\ UNCHANGED <<simple, realtime, daily>>

\* CancelledError is raised in the frame loop: the inner finally cancels and
\* awaits the buffer processor (lines 599-605)
ManualCancelled(t) ==
    /\ manual.tasks[t].pc = "cancelled"
    /\ manual' = [manual EXCEPT !.tasks[t].pc = "cleaning"]
    /\ UNCHANGED <<simple, realtime, daily>>

\* the buffer processor has ended: the outer finally (lines 607-615)
ManualCleanup(t) ==
    /\ manual.tasks[t].pc = "cleaning"
    /\ manual' = [manual EXCEPT
                     !.audio_processors = Pop(@, manual.tasks[t].speaker_id),
                     !.tasks[t].pc = "done"]
    /\ UNCHANGED <<simple, realtime, daily>>


NoVariants == realtime = NewRealtime /\ daily = NewDaily /\ manual = NewManual

(***************************************************************************)
(* The agent may join a room that already has participants and published   *)
(* tracks; it knows no preference and runs no assistant (lines 52-65).     *)
(***************************************************************************)
SimpleJoined(rm) ==
    /\ room = rm
    /\ audio \in SUBSET room
    /\ participant_languages = EmptyDict
    /\ translation_enabled = EmptyDict
    /\ assistants = EmptyDict
    /\ host_vad_setting = "medium"
    /\ sessions = [n \in 1..MaxSessions |-> NoSession]
    /\ tasks = <<>>
    /\ nEvents = 0
    /\ scn = Blank
    /\ NoTranscripts
    /\ NoSubscriptions

Joined(rm) == SimpleJoined(rm) /\ NoVariants

Init == Joined(Participants)

(***************************************************************************)
(* Specifications.  A coroutine step is always possible; the               *)
(* specifications differ in who is in the room and when events arrive.     *)
(***************************************************************************)
\* Events arrive at any time, also while coroutines are suspended.
Next ==
    \/ \E p \in Participants, l \in Languages, e \in BOOLEAN :
          nEvents < MaxEvents /\ LanguageUpdate(p, l, e)
    \/ \E p \in Participants : nEvents < MaxEvents /\ ParticipantConnected(p)
    \/ \E p \in Participants : nEvents < MaxEvents /\ TrackPublished(p)
    \/ \E p \in Participants : nEvents < MaxEvents /\ ParticipantDisconnected(p)
    \/ \E i \in 1..Len(tasks) : UpdateBegin(i)
    \/ \E i \in 1..Len(tasks) : StartOk(i)
    \/ \E i \in 1..Len(tasks) : StartFail(i)
    \/ \E i \in 1..Len(tasks) : CloseDone(i)
    \/ \E i \in 1..Len(tasks) : CloseTaskBegin(i)
    \/ \E i \in 1..Len(tasks) : CloseTaskDone(i)

Spec == Init /\ [][Next]_vars

\* Events arrive only when every coroutine scheduled so far has ended.
Idle == Len(tasks) = 0

NextSerial ==
    \/ \E p \in Participants, l \in Languages, e \in BOOLEAN :
          nEvents < MaxSerialEvents /\ Idle /\ LanguageUpdate(p, l, e)
    \/ \E p \in Participants : nEvents < MaxSerialEvents /\ Idle /\ ParticipantConnected(p)
    \/ \E p \in Participants : nEvents < MaxSerialEvents /\ Idle /\ TrackPublished(p)
    \/ \E p \in Participants : nEvents < MaxSerialEvents /\ Idle /\ ParticipantDisconnected(p)
    \/ \E i \in 1..Len(tasks) : UpdateBegin(i)
    \/ \E i \in 1..Len(tasks) : StartOk(i)
    \/ \E i \in 1..Len(tasks) : StartFail(i)
    \/ \E i \in 1..Len(tasks) : CloseDone(i)
    \/ \E i \in 1..Len(tasks) : CloseTaskBegin(i)
    \/ \E i \in 1..Len(tasks) : CloseTaskDone(i)

SpecSerial == Init /\ [][NextSerial]_vars

\* As SpecSerial, in a room where X and Y publish audio when the agent
\* joins, with changes of the host's sensitivity setting.
VadRoom == Participants

InitVad == Joined(VadRoom) /\ audio = {"X", "Y"}

NextVad ==
    \/ \E p \in VadRoom, l \in Languages, e \in BOOLEAN :
          nEvents < MaxVadEvents /\ Idle /\ LanguageUpdate(p, l, e)
    \/ \E p \in VadRoom : nEvents < MaxVadEvents /\ Idle /\ ParticipantConnected(p)
    \/ \E p \in VadRoom : nEvents < MaxVadEvents /\ Idle /\ TrackPublished(p)
    \/ \E p \in VadRoom : nEvents < MaxVadEvents /\ Idle /\ ParticipantDisconnected(p)
    \/ \E level \in VadLevels : nEvents < MaxVadEvents /\ Idle /\ VadUpdate(level)
    \/ \E i \in 1..Len(tasks) : UpdateBegin(i)
    \/ \E i \in 1..Len(tasks) : RestartBegin(i)
    \/ \E i \in 1..Len(tasks) : StartOk(i)
    \/ \E i \in 1..Len(tasks) : StartFail(i)
    \/ \E i \in 1..Len(tasks) : CloseDone(i)
    \/ \E i \in 1..Len(tasks) : SleepDone(i)
    \/ \E i \in 1..Len(tasks) : CloseTaskBegin(i)
    \/ \E i \in 1..Len(tasks) : CloseTaskDone(i)

SpecVad == InitVad /\ [][NextVad]_vars

\* As SpecSerial, in a room with two participants and another agent, which
\* publishes audio and sends data messages like any participant.
AgentRoom == {"X", "Y", "agent-1"}

InitAgent == Joined(AgentRoom)

NextAgent ==
    \/ \E p \in AgentRoom, l \in Languages, e \in BOOLEAN :
          nEvents < MaxAgentEvents /\ Idle /\ LanguageUpdate(p, l, e)
    \/ \E p \in AgentRoom : nEvents < MaxAgentEvents /\ Idle /\ ParticipantConnected(p)
    \/ \E p \in AgentRoom : nEvents < MaxAgentEvents /\ Idle /\ TrackPublished(p)
    \/ \E p \in AgentRoom : nEvents < MaxAgentEvents /\ Idle /\ ParticipantDisconnected(p)
    \/ \E i \in 1..Len(tasks) : UpdateBegin(i)
    \/ \E i \in 1..Len(tasks) : StartOk(i)
    \/ \E i \in 1..Len(tasks) : StartFail(i)
    \/ \E i \in 1..Len(tasks) : CloseDone(i)
    \/ \E i \in 1..Len(tasks) : CloseTaskBegin(i)
    \/ \E i \in 1..Len(tasks) : CloseTaskDone(i)

SpecAgent == InitAgent /\ [][NextAgent]_vars

\* As SpecSerial, in a room where X publishes audio when the agent joins,
\* with data packets of any payload, also from a sender that has left the
\* room.
MessageRoom == Participants

InitMessages == Joined(MessageRoom) /\ audio = {"X"}

NextMessages ==
    \/ \E sender \in MessageRoom, message \in Messages :
          nEvents < MaxMessageEvents /\ Idle /\ DataReceived(sender, message)
    \/ \E p \in MessageRoom : nEvents < MaxMessageEvents /\ Idle /\ ParticipantConnected(p)
    \/ \E p \in MessageRoom : nEvents < MaxMessageEvents /\ Idle /\ ParticipantDisconnected(p)
    \/ \E i \in 1..Len(tasks) : UpdateBegin(i)
    \/ \E i \in 1..Len(tasks) : RestartBegin(i)
    \/ \E i \in 1..Len(tasks) : StartOk(i)
    \/ \E i \in 1..Len(tasks) : StartFail(i)
    \/ \E i \in 1..Len(tasks) : CloseDone(i)
    \/ \E i \in 1..Len(tasks) : SleepDone(i)
    \/ \E i \in 1..Len(tasks) : CloseTaskBegin(i)
    \/ \E i \in 1..Len(tasks) : CloseTaskDone(i)

SpecMessages == InitMessages /\ [][NextMessages]_vars

\* Events at any time, in a room where X publishes audio when the agent
\* joins: participants enable translation, and X may leave, come back and
\* publish again.
InitRejoin == Joined(Participants) /\ audio = {"X"}

NextRejoin ==
    \/ \E p \in Participants, l \in Languages :
          nEvents < MaxRejoinEvents /\ LanguageUpdate(p, l, TRUE)
    \/ nEvents < MaxRejoinEvents /\ ParticipantDisconnected("X")
    \/ nEvents < MaxRejoinEvents /\ ParticipantConnected("X")
    \/ nEvents < MaxRejoinEvents /\ TrackPublished("X")
    \/ \E i \in 1..Len(tasks) : UpdateBegin(i)
    \/ \E i \in 1..Len(tasks) : StartOk(i)
    \/ \E i \in 1..Len(tasks) : StartFail(i)
    \/ \E i \in 1..Len(tasks) : CloseDone(i)

SpecRejoin == InitRejoin /\ [][NextRejoin]_vars

\* _get_vad_config reads self.host_vad_setting, whatever it holds: the
\* attribute starts at any name, recognised or not, and every session the
\* passes create is configured by the resolver.
LevelNames == VadLevels \cup {"loud", "LOW", "", None}

InitResolver ==
    /\ room = Participants
    /\ audio = {"X", "Y"}
    /\ participant_languages = EmptyDict
    /\ translation_enabled = EmptyDict
    /\ assistants = EmptyDict
    /\ host_vad_setting \in LevelNames
    /\ sessions = [n \in 1..MaxSessions |-> NoSession]
    /\ tasks = <<>>
    /\ nEvents = 0
    /\ scn = Blank
    /\ NoTranscripts
    /\ NoSubscriptions
    /\ NoVariants

NextResolver ==
    \/ \E p \in Participants, l \in Languages, e \in BOOLEAN :
          Idle /\ nEvents < MaxResolverEvents /\ LanguageUpdate(p, l, e)
    \/ \E i \in 1..Len(tasks) : UpdateBegin(i)
    \/ \E i \in 1..Len(tasks) : StartOk(i)
    \/ \E i \in 1..Len(tasks) : StartFail(i)
    \/ \E i \in 1..Len(tasks) : CloseDone(i)
    \/ \E i \in 1..Len(tasks) : CloseTaskBegin(i)
    \/ \E i \in 1..Len(tasks) : CloseTaskDone(i)

SpecResolver == InitResolver /\ [][NextResolver]_vars

\* X and Y, X publishing audio; preference updates and sensitivity changes
\* arrive at any time, also while a pass or a restart is suspended.
InitVadRace == Joined({"X", "Y"}) /\ audio = {"X"}

NextVadRace ==
    \/ \E p \in {"X", "Y"}, l \in Languages, e \in BOOLEAN :
          nEvents < MaxVadRaceEvents /\ LanguageUpdate(p, l, e)
    \/ \E level \in VadLevels : nEvents < MaxVadRaceEvents /\ VadUpdate(level)
    \/ \E i \in 1..Len(tasks) : UpdateBegin(i)
    \/ \E i \in 1..Len(tasks) : RestartBegin(i)
    \/ \E i \in 1..Len(tasks) : StartOk(i)
    \/ \E i \in 1..Len(tasks) : StartFail(i)
    \/ \E i \in 1..Len(tasks) : CloseDone(i)
    \/ \E i \in 1..Len(tasks) : SleepDone(i)
    \/ \E i \in 1..Len(tasks) : CloseTaskBegin(i)
    \/ \E i \in 1..Len(tasks) : CloseTaskDone(i)

SpecVadRace == InitVadRace /\ [][NextVadRace]_vars

\* Two pipelines run, (X, es) and (X, fr), as after X, Y and Z have sent
\* their preferences; the provider's events and the ends of the send tasks
\* arrive in any order.
TranscriptSessions == {1, 2}

InitTranscript ==
    /\ room = Participants
    /\ audio = {"X"}
    /\ participant_languages = Put(Put(Put(EmptyDict, "X", "en"), "Y", "es"), "Z", "fr")
    /\ translation_enabled = Put(Put(Put(EmptyDict, "X", TRUE), "Y", TRUE), "Z", TRUE)
    /\ assistants = Put(Put(EmptyDict, <<"X", "es">>, 1), <<"X", "fr">>, 2)
    /\ host_vad_setting = "medium"
    /\ sessions = [n \in 1..MaxSessions |->
                      IF n \in TranscriptSessions
                      THEN [route |-> <<"X", LanguageOrder[n + 1]>>, state |-> "active",
                            vad |-> GetVadConfig("medium")]
                      ELSE NoSession]
    /\ tasks = <<>>
    /\ nEvents = 0
    /\ scn = Blank
    /\ NoTranscripts
    /\ NoSubscriptions
    /\ NoVariants

NextTranscript ==
    \/ \E n \in TranscriptSessions, text \in Originals, is_final \in BOOLEAN :
          nEvents < MaxTranscriptEvents /\ OnOriginalTranscribed(n, text, is_final)
    \/ \E n \in TranscriptSessions, text \in Originals :
          nEvents < MaxTranscriptEvents /\ OnUserSpeechCommitted(n, text)
    \/ \E n \in TranscriptSessions :
          nEvents < MaxTranscriptEvents /\ OnAgentSpeechStarted(n)
    \/ \E n \in TranscriptSessions, delta \in Deltas :
          nEvents < MaxTranscriptEvents /\ OnAgentSpeechDelta(n, delta)
    \/ \E n \in TranscriptSessions, text \in FinalTexts :
          nEvents < MaxTranscriptEvents /\ OnAgentSpeechCommitted(n, text)
    \/ \E n \in TranscriptSessions, role \in {"assistant", "user"}, text \in FinalTexts :
          nEvents < MaxTranscriptEvents /\ OnConversationItemAdded(n, role, text)
    \/ PublishOk
    \/ PublishFail

SpecTranscript == InitTranscript /\ [][NextTranscript]_vars

\* Two participants, both publishing audio, who only send language
\* preferences, at any time.
InitRace == Joined({"X", "Y"}) /\ audio = room

NextRace ==
    \/ \E p \in Participants, l \in Languages, e \in BOOLEAN :
          nEvents < MaxRaceEvents /\ LanguageUpdate(p, l, e)
    \/ \E i \in 1..Len(tasks) : UpdateBegin(i)
    \/ \E i \in 1..Len(tasks) : StartOk(i)
    \/ \E i \in 1..Len(tasks) : StartFail(i)
    \/ \E i \in 1..Len(tasks) : CloseDone(i)
    \/ \E i \in 1..Len(tasks) : CloseTaskBegin(i)
    \/ \E i \in 1..Len(tasks) : CloseTaskDone(i)

SpecRace == InitRace /\ [][NextRace]_vars

(***************************************************************************)
(* Vocabulary of the properties.                                           *)
(***************************************************************************)
\* a provider session that has been started and not stopped
Live(n) == sessions[n].state \in {"starting", "active"}

LiveFor(route) == {n \in 1..MaxSessions : Live(n) /\ sessions[n].route = route}

\* target languages of the translation-enabled participants other than excl
Wanted(excl) ==
    {participant_languages[p] :
        p \in {q \in DOMAIN participant_languages \ excl : Get(translation_enabled, q, FALSE)}}

\* the active speakers: in the room with a published audio track
ActiveSpeakers == room \cap audio

\* the required routes of the current registry (spec section 4.2)
RequiredRoutes ==
    {r \in Identities \X Languages :
        /\ ~IsAgent(r[1])
        /\ r[1] \in ActiveSpeakers
        /\ r[1] \in DOMAIN participant_languages
        /\ r[2] \in Wanted({})
        /\ r[2] # participant_languages[r[1]]}

\* The subscription filter applied to running sessions, in any order and
\* any number of times.  The registry is any that X, Y and Z can have set,
\* X and Y being the possible audio sources, and the running pipelines are
\* its required routes.
FilterOrder == SelectSeq(RouteOrder, LAMBDA r : r \in RequiredRoutes)

InitFilter ==
    /\ room = Participants
    /\ audio \in SUBSET {"X", "Y"}
    /\ \E S \in SUBSET Participants :
          /\ participant_languages \in [S -> Languages]
          /\ translation_enabled \in [S -> BOOLEAN]
    /\ assistants = [r \in RequiredRoutes |->
                        CHOOSE n \in 1..Len(FilterOrder) : FilterOrder[n] = r]
    /\ host_vad_setting = "medium"
    /\ sessions = [n \in 1..MaxSessions |->
                      IF n <= Len(FilterOrder)
                      THEN [route |-> FilterOrder[n], state |-> "active",
                            vad |-> GetVadConfig("medium")]
                      ELSE NoSession]
    /\ tasks = <<>>
    /\ nEvents = 0
    /\ scn = Blank
    /\ NoTranscripts
    /\ NoSubscriptions
    /\ NoVariants

NextFilter == \E n \in 1..MaxSessions : UpdateAssistantSubscriptions(n)

SpecFilter == InitFilter /\ [][NextFilter]_vars

(***************************************************************************)
(* C1: under any interleaving of the room-event handlers, no two provider  *)
(* sessions that are started and not closed exist for the same route.      *)
(***************************************************************************)
C1_OneSessionPerRoute ==
    \A r \in Participants \X Languages : Cardinality(LiveFor(r)) <= 1

(***************************************************************************)
(* C2: for every speaker S the number of running pipelines with speaker S  *)
(* is at most the number of distinct target languages of the               *)
(* translation-enabled participants other than S.  Stated for the states   *)
(* in which every scheduled coroutine has ended.                           *)
(***************************************************************************)
C2_DedupBound ==
    Idle => \A s \in Participants :
        Cardinality({n \in 1..MaxSessions : Live(n) /\ sessions[n].route[1] = s})
            <= Cardinality(Wanted({s}))

(***************************************************************************)
(* C3: when speaker S has target language L and no other participant      *)
(* wants L, no pipeline (S, L) exists, starting or active.  Stated for the *)
(* states in which every scheduled coroutine has ended.                    *)
(***************************************************************************)
C3_NoSameLanguageRoute ==
    Idle => \A s \in DOMAIN participant_languages :
        participant_languages[s] \notin Wanted({s})
            => LiveFor(<<s, participant_languages[s]>>) = {}

(***************************************************************************)
(* C6: at most one reconcile pass is executing at any time: no two passes  *)
(* are suspended on a provider call together.                              *)
(***************************************************************************)
InPass(i) == tasks[i].kind # "close" /\ tasks[i].pc \in {"starting", "closing"}

C6_OnePassAtATime == Cardinality({i \in 1..Len(tasks) : InPass(i)}) <= 1

(***************************************************************************)
(* C7: from the issue of a provider start for a route until the stop of    *)
(* that session has completed, the assistants dict has an entry under the  *)
(* route.                                                                  *)
(***************************************************************************)
C7_EntryWhileInProgress ==
    \A n \in 1..MaxSessions :
        sessions[n].state \in {"starting", "active", "closing"}
            => Has(assistants, sessions[n].route)

(***************************************************************************)
(* The remaining properties are about the handling of one event that       *)
(* arrived when no coroutine was pending, up to the end of that handling.  *)
(***************************************************************************)
Handled == scn.solo /\ scn.done

\* the event scheduled a pass of _update_assistants_for_all_languages
TriggersPass ==
    \/ scn.ev.kind \in {"connected", "published"} /\ ~IsAgent(scn.ev.p)
    \/ scn.ev.kind = "disconnected"
    \/ scn.ev.kind = "language" /\ scn.ev.enabled

\* positions in the log of the provider starts issued for speaker s
StartsBy(s) == {m \in 1..Len(scn.ops) : scn.ops[m][1] = "start" /\ scn.ops[m][2][1] = s}

(***************************************************************************)
(* C4: the required-route set a reconcile pass computes is exactly the set *)
(* of (s, t) with s a non-agent participant with a published audio track   *)
(* and a known language preference, t the target language of some translation-enabled  *)
(* participant, and t different from s's own target language: one element  *)
(* per (speaker, language) however many listeners share t.                 *)
(***************************************************************************)
C4_RequiredRoutes == (scn.solo /\ scn.built) => scn.expected = RequiredRoutes

C4_Witness ==
    /\ scn.solo /\ scn.built
    /\ \E y, z \in DOMAIN participant_languages :
          /\ y # z
          /\ participant_languages[y] = participant_languages[z]
          /\ translation_enabled[y] /\ translation_enabled[z]
          /\ \E x \in Participants : <<x, participant_languages[y]>> \in scn.expected
    /\ \E x \in ActiveSpeakers : ~IsAgent(x) /\ Get(participant_languages, x, None) \in Wanted({})
    /\ \E a \in ActiveSpeakers :
          /\ IsAgent(a) /\ Has(participant_languages, a)
          /\ Wanted({}) \ {participant_languages[a]} # {}

LanguageChanged(y, o, n) ==
    /\ Handled
    /\ scn.ev.kind = "language" /\ scn.ev.p = y
    /\ scn.ev.old = o /\ scn.ev.new = n /\ o # n
    /\ scn.ev.oldEnabled /\ scn.ev.enabled

StillRunning(r) == Has(scn.pre, r) /\ Has(assistants, r) /\ assistants[r] = scn.pre[r]

BecameSpeaker(x) == Handled /\ scn.ev.kind = "published" /\ scn.ev.p = x /\ ~scn.nochange

Listens(p, l) ==
    Get(participant_languages, p, None) = l /\ Get(translation_enabled, p, FALSE)

OnlyStart(x, l) ==
    /\ Cardinality(StartsBy(x)) = 1
    /\ \A m \in StartsBy(x) : scn.ops[m][2] = <<x, l>>

SensitivityChanged == Handled /\ scn.ev.kind = "vad" /\ scn.ev.old # scn.ev.new

StartCount(r) == Cardinality({m \in 1..Len(scn.ops) : scn.ops[m] = <<"start", r>>})

ScenarioD ==
    /\ OpsOf(scn, "stop") = DOMAIN scn.pre
    /\ OpsOf(scn, "start") = DOMAIN scn.pre
    /\ \A r \in DOMAIN scn.pre :
          /\ StartCount(r) = 1
          /\ Has(assistants, r) =>
                /\ sessions[assistants[r]].vad = GetVadConfig(scn.ev.new)
                /\ sessions[assistants[r]].vad # GetVadConfig(scn.ev.old)

C11_ScenarioD == (SensitivityChanged /\ scn.pre # EmptyDict) => ScenarioD

(***************************************************************************)
(* C11 amended: when the sensitivity changes while N pipelines are active, *)
(* these being exactly the required routes of the registry, and no other   *)
(* event occurs, each of the N old sessions is stopped and exactly N new   *)
(* sessions are started, one for each of the same N routes, each           *)
(* configured with the new turn-detection profile.                         *)
(***************************************************************************)
C11_ScenarioDRequiredActive ==
    (SensitivityChanged /\ scn.pre # EmptyDict /\ DOMAIN scn.pre = RequiredRoutes)
        => ScenarioD

C11_Witness ==
    /\ SensitivityChanged
    /\ DOMAIN scn.pre = RequiredRoutes
    /\ Cardinality(DOMAIN scn.pre) = 3
    /\ Len(scn.ops) = 6
    /\ \A r \in DOMAIN scn.pre :
          Has(assistants, r) /\ sessions[assistants[r]].vad = GetVadConfig(scn.ev.new)

(***************************************************************************)
(* C12: when a participant's language preference changes from o to another *)
(* language n, every provider stop for a pipeline into o that became stale *)
(* (no translation-enabled participant targets o any more) is issued       *)
(* before any provider start for a pipeline into n is issued.              *)
(***************************************************************************)
LanguageChanging(y, o, n) ==
    /\ scn.solo
    /\ scn.ev.kind = "language" /\ scn.ev.p = y
    /\ scn.ev.old = o /\ scn.ev.new = n /\ o # n
    /\ scn.ev.oldEnabled /\ scn.ev.enabled

C12_StopBeforeStart ==
    \A y \in Participants, o, n \in Languages :
        (LanguageChanging(y, o, n) /\ o \notin Wanted({}))
            => \A m \in 1..Len(scn.ops) :
                  (scn.ops[m][1] = "start" /\ scn.ops[m][2][2] = n)
                      => \A x \in Participants :
                            Has(scn.pre, <<x, o>>)
                                => \E k \in 1..(m - 1) : scn.ops[k] = <<"stop", <<x, o>>>>

(***************************************************************************)
(* C13: if a route leaves the required set while its provider start is in  *)
(* flight, the session is stopped once the start completes: when every     *)
(* coroutine has ended, no session is running for a route that is not      *)
(* required.  Stated for registries in which no participant has            *)
(* translation disabled.                                                   *)
(***************************************************************************)
C13_NoOrphanAfterStart ==
    (Idle /\ \A p \in DOMAIN translation_enabled : translation_enabled[p])
        => \A n \in 1..MaxSessions : Live(n) => sessions[n].route \in RequiredRoutes

(***************************************************************************)
(* C14: when a provider start for a route fails, the pass continues with   *)
(* the other routes and reaches its end, the route is left absent from the *)
(* assistants dict, no further start for it is issued while the same event *)
(* is handled, and the pass triggered by the next event that triggers one  *)
(* issues the start again if the route is still required.                  *)
(***************************************************************************)
C14_StartFailureAbsorbed ==
    /\ (scn.solo /\ Idle /\ OpsOf(scn, "fail") # {})
          => /\ scn.done /\ scn.built
             /\ \A r \in scn.expected : Has(assistants, r) \/ r \in OpsOf(scn, "fail")
             /\ \A r \in OpsOf(scn, "fail") : ~Has(assistants, r) /\ StartCount(r) = 1
    /\ (Handled /\ TriggersPass /\ scn.built)
          => \A r \in scn.retry \cap RequiredRoutes : StartCount(r) = 1

C14_Witness ==
    /\ Handled /\ TriggersPass /\ scn.built
    /\ \E r \in scn.retry \cap RequiredRoutes : Has(assistants, r)
    /\ \E r \in OpsOf(scn, "fail"), r2 \in scn.expected :
          /\ Has(assistants, r2) /\ ~Has(scn.pre, r2)
          /\ \E m, k \in 1..Len(scn.ops) :
                m < k /\ scn.ops[m] = <<"fail", r>> /\ scn.ops[k] = <<"start", r2>>

(***************************************************************************)
(* C15: after a participant P has disconnected and the handling of the     *)
(* disconnect has completed (no coroutine is pending), no pipeline whose   *)
(* speaker is P is in the assistants dict or running at the provider.      *)
(***************************************************************************)
C15_NoPipelineOfDeparted ==
    Idle => \A p \in Participants \ room :
        /\ \A r \in DOMAIN assistants : r[1] # p
        /\ \A n \in 1..MaxSessions : Live(n) => sessions[n].route[1] # p

(***************************************************************************)
(* C16: a language preference update whose sender is not, or is no longer, *)
(* in the room is a no-op: languages, enabled flags and pipelines are      *)
(* unchanged.                                                              *)
(***************************************************************************)
LanguageMessages == {m \in Messages : m.json /\ m.type = "language_update"}

C16_LateUpdateNoOp ==
    [][\A sender \in MessageRoom \ room, message \in LanguageMessages :
          DataReceived(sender, message)
              => UNCHANGED <<participant_languages, translation_enabled, assistants,
                             sessions, tasks>>]_vars

C16_Witness ==
    /\ scn.ev.kind = "late" /\ scn.ev.p \notin room
    /\ scn.prev # "none"
    /\ DOMAIN assistants # {}
    /\ DOMAIN participant_languages # {}

(***************************************************************************)
(* C17: a malformed control message (not valid JSON, of an unrecognised    *)
(* type, or a language update lacking its language or its enabled field)   *)
(* is ignored: languages, enabled flags, the sensitivity setting and the   *)
(* pipelines are unchanged.                                                *)
(***************************************************************************)
Malformed(m) ==
    \/ ~m.json
    \/ m.type \notin {"language_update", "language_preference", "host_vad_setting"}
    \/ m.type = "language_update" /\ (m.language = Absent \/ m.enabled = Absent)

C17_MalformedIgnored ==
    [][\A sender \in MessageRoom, message \in {m \in Messages : Malformed(m)} :
          DataReceived(sender, message)
              => UNCHANGED <<participant_languages, translation_enabled, host_vad_setting,
                             assistants, sessions, tasks>>]_vars

(***************************************************************************)
(* C18: a participant who is an active audio source but has no language    *)
(* preference never becomes the speaker of a route: no provider start is   *)
(* issued for a route whose speaker is in the room with a published audio  *)
(* track and without a stored preference.                                  *)
(***************************************************************************)
StartIssued(n) == sessions[n].state = "free" /\ sessions'[n].state = "starting"

C18_NoStartWithoutPreference ==
    [][\A n \in 1..MaxSessions :
          StartIssued(n)
              => ~(/\ sessions'[n].route[1] \in ActiveSpeakers
                   /\ ~Has(participant_languages, sessions'[n].route[1]))]_vars

(***************************************************************************)
(* C19: for each route, no two consecutive transcript messages forwarded   *)
(* carry the same translated text; a partial whose text is that of the     *)
(* final that follows is not sent twice.                                   *)
(***************************************************************************)
Forwarded(n) == SelectSeq(outcomes, LAMBDA o : o.ok /\ o.message.session = n)

Handed == [k \in 1..Len(outcomes) |-> outcomes[k].message] \o sends

EachMessageOnce ==
    /\ Len(Handed) = nEmitted
    /\ \A k \in 1..Len(Handed) : Handed[k].timestamp = k

IsProfile(c) ==
    /\ DOMAIN c = {"threshold", "silence_duration_ms", "prefix_padding_ms"}
    /\ \A f \in DOMAIN c : c[f] \in Nat \ {0}

C21_ResolverTotal ==
    \A n \in 1..MaxSessions :
        sessions[n].state # "free"
            => /\ IsProfile(sessions[n].vad)
               /\ sessions[n].vad = GetVadConfig(host_vad_setting)
               /\ host_vad_setting \notin VadLevels
                      => sessions[n].vad = GetVadConfig("medium")

\* a session configured while the level is a name the resolver does not
\* recognise
C21_Witness ==
    /\ host_vad_setting \notin VadLevels
    /\ \E n \in 1..MaxSessions : sessions[n].state = "active"

Running == {sessions[n].route : n \in {m \in 1..MaxSessions : Live(m)}}

C23_NoStaleAtRest ==
    Idle => /\ DOMAIN assistants \subseteq RequiredRoutes
            /\ Running \subseteq RequiredRoutes

(***************************************************************************)
(* C24: a pass takes all its start and stop decisions from one snapshot    *)
(* of the registry.  What a pass expects or starts is required by the      *)
(* registry as it was when the pass began, whatever arrives while the      *)
(* pass is suspended, and the pass stops no pipeline that the registry it  *)
(* read requires.                                                          *)
(***************************************************************************)
RequiredAtEntry(t) ==
    {<<s, l>> : s \in {p \in SeqSet(t.snap.speakers) : Has(t.snap.langs, p)},
                l \in SeqSet(t.targets)}
        \ {<<s, t.snap.langs[s]>> : s \in DOMAIN t.snap.langs}

C24_SnapshotDecisions ==
    \A i \in 1..Len(tasks) :
        (tasks[i].kind # "close" /\ tasks[i].pc # "new" /\ tasks[i].phase # "restart")
            => /\ tasks[i].expected \subseteq RequiredAtEntry(tasks[i])
               /\ tasks[i].pc = "closing" => tasks[i].route \notin RequiredAtEntry(tasks[i])

(***************************************************************************)
(* C25: after a sensitivity change, once all scheduled tasks have          *)
(* completed, every running pipeline was started with the profile of the   *)
(* current sensitivity setting, also when a pass or a pipeline start was   *)
(* in flight when the change arrived.                                      *)
(***************************************************************************)
C25_CurrentProfileAtRest ==
    Idle => \A n \in 1..MaxSessions :
                Live(n) => sessions[n].vad = GetVadConfig(host_vad_setting)

(***************************************************************************)
(* C26: each pipeline instance follows Stopped -> Starting -> Active ->    *)
(* Stopping -> Stopped and is never reused.  An instance is started at     *)
(* most once, always as a new object; it is in the map only while Active,  *)
(* so never again once it has been closed; a route that becomes required   *)
(* again gets a new instance.                                              *)
(***************************************************************************)
LifecycleStep(a, b) ==
    \/ a = "free" /\ b \in {"free", "starting"}
    \/ a = "starting" /\ b \in {"starting", "active", "free"}
    \/ a = "active" /\ b \in {"active", "closing"}
    \/ a = "closing" /\ b \in {"closing", "closed", "free"}
    \/ a = "closed" /\ b \in {"closed", "free"}

\* The instance under n is the same before and after the step.  (When a
\* start fails its object is dropped, and the pass may go on to
\* construct the next one in the same step.)
SameInstance(n) ==
    /\ sessions[n].state # "free" /\ sessions'[n].state # "free"
    /\ ~\E i \in 1..Len(tasks) : tasks[i].sid = n /\ StartFail(i)

FinalsPublished(n, since) ==
    {k \in 1..Len(outcomes) :
        /\ outcomes[k].ok /\ ~outcomes[k].message.partial
        /\ outcomes[k].message.session = n
        /\ outcomes[k].message.timestamp > since}

C27_OneFinalBetweenResets ==
    \A n \in 1..MaxSessions :
        Cardinality(FinalsPublished(n, turn_finals[n].resetAt)) <= 1

\* C27 with the turn as the code delimits it: on_user_speech_committed
\* with a text resets sent_final as well and begins a turn too.
C27_OneFinalPublishedPerTurn ==
    \A n \in 1..MaxSessions :
        Cardinality(FinalsPublished(n, turn_finals[n].turnAt)) <= 1

\* session 2 has published the final message of its turn and skipped two
\* further final texts of that turn
C27_Witness ==
    /\ Cardinality(FinalsPublished(2, turn_finals[2].turnAt)) = 1
    /\ turn_finals[2].skipped = 2

(***************************************************************************)
(* C28: after the audio routing filter has been applied for all running    *)
(* pipelines, the pipelines with target language L receive audio from no   *)
(* participant whose own target language is L and do receive audio from    *)
(* every audio source with a known, different target language, for all     *)
(* target languages at once.                                               *)
(***************************************************************************)
Active == {n \in 1..MaxSessions : sessions[n].state = "active"}

ReceivedFor(l) == UNION {Receives(n) : n \in {m \in Active : sessions[m].route[2] = l}}

C28_FilterRoutesAudio ==
    (Active # {} /\ Active \subseteq filtered)
        => \A n \in Active :
              LET l == sessions[n].route[2]
              IN  /\ \A p \in ReceivedFor(l) :
                        Has(participant_languages, p) => participant_languages[p] # l
                  /\ \A p \in Visited : participant_languages[p] # l => p \in ReceivedFor(l)

(***************************************************************************)
(* C29: after every change of the participant set or of the required       *)
(* routes, the audio routing filter is applied again to every running      *)
(* pipeline.  Once an event that changes them has been handled, every      *)
(* pipeline in the map has had the filter applied.                         *)
(***************************************************************************)
C29_FilterReapplied ==
    (Handled /\ TriggersPass) => \A k \in DOMAIN assistants : assistants[k] \in filtered

(***************************************************************************)
(* C30 as stated: when a participant's language preference update has been  *)
(* fully handled and the same update (same participant, same language,     *)
(* same enabled flag) is delivered once more, the registry is left as it    *)
(* was and no provider start and no provider stop is issued.                *)
(***************************************************************************)
RepeatIsFree ==
    /\ scn.nochange
    /\ Get(participant_languages, scn.ev.p, None) = scn.ev.new
    /\ Get(translation_enabled, scn.ev.p, ~scn.ev.enabled) = scn.ev.enabled
    /\ OpsOf(scn, "start") = {}
    /\ OpsOf(scn, "stop") = {}

RealtimeLevelNames == RealtimeLevels \cup {"loud", Absent}

InitRealtime == Joined({})

NextRealtime ==
    \/ \E p \in RealtimeRoom, level \in RealtimeLevelNames :
          /\ realtime.nEvents < MaxRealtimeEvents /\ RealtimeIdle
          /\ RealtimeVadUpdate(p, level)
    \/ \E p \in RealtimeRoom, l \in {"en", "es"}, e \in BOOLEAN :
          /\ realtime.nEvents < MaxRealtimeEvents /\ RealtimeIdle
          /\ RealtimeLanguageUpdate(p, l, e)
    \/ \E i \in 1..Len(realtime.tasks) : RealtimeBegin(i)
    \/ \E i \in 1..Len(realtime.tasks) : RealtimeResume(i)
    \/ \E i \in 1..Len(realtime.tasks) : RealtimeCloseDone(i)
    \/ \E i \in 1..Len(realtime.tasks) : RealtimeStartOk(i)
    \/ \E i \in 1..Len(realtime.tasks) : RealtimeStartFail(i)

SpecRealtime == InitRealtime /\ [][NextRealtime]_vars

(***************************************************************************)
(* TranslationAgent of agent.py in a meeting with one or two participants, *)
(* with or without a usable API key; audio frames arrive at any time and   *)
(* provider connections may drop.                                          *)
(***************************************************************************)
InitDaily ==
    /\ SimpleJoined({})
    /\ realtime = NewRealtime
    /\ manual = NewManual
    /\ \E ps \in {{Local, "X"}, {Local, "X", "Y"}}, valid \in BOOLEAN :
          daily = [NewDaily EXCEPT !.participants = ps, !.api_key_valid = valid]

NextDaily ==
    \/ \E pid \in {"X", "Y"} : daily.nFrames < MaxFrames /\ AudioFrame(pid)
    \/ \E i \in 1..Len(daily.tasks) : FrameBegin(i)
    \/ \E i \in 1..Len(daily.tasks) : ConnectOk(i)
    \/ \E i \in 1..Len(daily.tasks) : ConnectTimeout(i)
    \/ \E i \in 1..Len(daily.tasks) : ConnectError(i)
    \/ \E i \in 1..Len(daily.tasks) : ConfigOk(i)
    \/ \E i \in 1..Len(daily.tasks) : ConfigFail(i)
    \/ \E i \in 1..Len(daily.tasks) : SendDone(i)
    \/ \E client \in 1..MaxClients, error \in BOOLEAN : Drop(client, error)

SpecDaily == InitDaily /\ [][NextDaily]_vars

(***************************************************************************)
(* The manual mode of realtime_agent.py: the agent has joined a room where *)
(* X and Y publish audio; language updates, disconnections, connections    *)
(* and track subscriptions arrive at any time between the segments of the  *)
(* process_speaker_audio tasks.                                            *)
(***************************************************************************)
InitManual ==
    /\ SimpleJoined({})
    /\ realtime = NewRealtime
    /\ daily = NewDaily
    /\ manual = [NewManual EXCEPT !.participants = ManualRoom, !.tracks = ManualRoom]

NextManual ==
    \/ \E p \in ManualRoom, enabled \in BOOLEAN :
          manual.nEvents < MaxManualEvents /\ ManualLanguageUpdate(p, enabled)
    \/ \E p \in ManualRoom : manual.nEvents < MaxManualEvents /\ ManualConnected(p)
    \/ \E p \in ManualRoom : manual.nEvents < MaxManualEvents /\ ManualDisconnected(p)
    \/ \E p \in ManualRoom : manual.nEvents < MaxManualEvents /\ ManualTrackSubscribed(p)
    \/ \E t \in 1..Len(manual.tasks) : ProcessSpeakerAudio(t)
    \/ \E t \in 1..Len(manual.tasks) : ManualFrame(t)
    \/ \E t \in 1..Len(manual.tasks) : ManualCancelled(t)
    \/ \E t \in 1..Len(manual.tasks) : ManualCleanup(t)

SpecManual == InitManual /\ [][NextManual]_vars

(***************************************************************************)
(* The realtime agent until and after its shutdown: room events arrive one *)
(* after the other has been handled, the entrypoint is cancelled at any    *)
(* time, with coroutines in flight or not, and no event is delivered       *)
(* afterwards.                                                             *)
(***************************************************************************)
NextShutdown ==
    \/ \E p \in RealtimeRoom, l \in RealtimeLevelNames :
          /\ realtime.nEvents < MaxShutdownEvents /\ RealtimeIdle
          /\ realtime.shutdown = "none"
          /\ RealtimeVadUpdate(p, l)
    \/ \E p \in RealtimeRoom, language \in {"en", "es"}, enabled \in BOOLEAN :
          /\ realtime.nEvents < MaxShutdownEvents /\ RealtimeIdle
          /\ realtime.shutdown = "none"
          /\ RealtimeLanguageUpdate(p, language, enabled)
    \/ RealtimeShutdown
    \/ \E i \in 1..Len(realtime.tasks) : RealtimeBegin(i)
    \/ \E i \in 1..Len(realtime.tasks) : RealtimeResume(i)
    \/ \E i \in 1..Len(realtime.tasks) : RealtimeCloseDone(i)
    \/ \E i \in 1..Len(realtime.tasks) : RealtimeStartOk(i)
    \/ \E i \in 1..Len(realtime.tasks) : RealtimeStartFail(i)

SpecShutdown == InitRealtime /\ [][NextShutdown]_vars

(***************************************************************************)
(* C32: when a participant disables translation and k >= 1 pipelines are    *)
(* removed from the pipelines map as a result, each of those k provider     *)
(* sessions is closed; once the update has been handled no session that     *)
(* was removed from the map is left running.                                *)
(***************************************************************************)
Disabled == Handled /\ scn.ev.kind = "language" /\ ~scn.ev.enabled

\* the pipelines the handling of the event removed from the map
Removed == DOMAIN scn.pre \ DOMAIN assistants

C32_RemovedSessionsClosed ==
    Disabled => \A k \in Removed : sessions[scn.pre[k]].state \notin {"starting", "active"}

(***************************************************************************)
(* C36: no pipeline ever has an agent participant (identity starting with   *)
(* 'agent-') as its speaker, whatever events agents generate: connecting,   *)
(* publishing audio tracks, sending control messages.  In neither agent     *)
(* does a key of the pipelines map, or a session being started, active or  *)
(* closing, have an agent as the participant whose audio it takes.          *)
(***************************************************************************)
C36_NoAgentSpeaker ==
    /\ \A k \in DOMAIN assistants : ~IsAgent(k[1])
    /\ \A n \in 1..MaxSessions :
          sessions[n].state # "free" => ~IsAgent(sessions[n].route[1])
    /\ \A k \in DOMAIN realtime.assistants : ~IsAgent(k[2])
    /\ \A n \in 1..MaxRealtimeSessions :
          realtime.sessions[n].state # "free" => ~IsAgent(realtime.sessions[n].key[2])

(***************************************************************************)
(* C31: every turn-detection profile the resolver defines for a named       *)
(* sensitivity level can be selected through the control channel: the       *)
(* sensitivity update message carrying that level leaves the room setting   *)
(* equal to the level; and every level the update handler accepts has a    *)
(* profile of its own in the resolver.                                      *)
(***************************************************************************)
C31_LevelsSelectable ==
    [][/\ \A p \in RealtimeRoom, l \in RealtimeLevels :
             RealtimeVadUpdate(p, l) => realtime'.host_vad_setting = l
       /\ \A l \in RealtimeLevelNames : Accepts(l) => l \in RealtimeLevels]_vars

(***************************************************************************)
(* C33: if the provider connection of an established pipeline drops, the   *)
(* dead client is not returned again as a usable pipeline: the next audio  *)
(* frame of the route gets a newly connected client.  No client is         *)
(* returned by get_or_create_realtime_client after its connection closed.  *)
(***************************************************************************)
C33_DeadClientNotReturned ==
    \A c \in 1..MaxClients : ~daily.clients[c].returned_dead

(***************************************************************************)
(* C34: get_or_create_realtime_client creates at most one provider client  *)
(* per (speaker, listener) pair, also when several audio frames of the     *)
(* speaker are processed concurrently while the first connect is in        *)
(* progress: no two clients of one pair are connected together.            *)
(***************************************************************************)
C34_OneClientPerPair ==
    \A c1, c2 \in 1..MaxClients :
        (/\ daily.clients[c1].key = daily.clients[c2].key
         /\ daily.clients[c1].websocket = "open"
         /\ daily.clients[c2].websocket = "open") => c1 = c2

(***************************************************************************)
(* C38: connect() returns True only when the websocket was established and *)
(* the session configuration was sent; whenever it returns False the       *)
(* client is left not running; on a connection timeout it makes exactly    *)
(* one more attempt before failing.                                        *)
(***************************************************************************)
C38_ConnectContract ==
    \A c \in 1..MaxClients :
        LET client == daily.clients[c]
        IN  /\ client.result = "True" => client.established /\ client.config_sent
            /\ client.result = "False" => ~client.running
            /\ client.attempts <= 2
            /\ (client.timed_out /\ client.result = "False" /\ ~client.established)
                   => client.attempts = 2

(***************************************************************************)
(* C35: in manual mode a speaker has at most one running audio-processing  *)
(* task at any time, and every running task of a speaker is the one the    *)
(* speaker's audio_processors entry refers to, also when                   *)
(* stop_audio_processing has cancelled a task and a new                    *)
(* process_speaker_audio for the same speaker starts while the cancelled   *)
(* task is still cleaning up.                                              *)
(***************************************************************************)
RunningTasks(speaker_id) ==
    {t \in 1..Len(manual.tasks) :
        manual.tasks[t].pc = "running" /\ manual.tasks[t].speaker_id = speaker_id}

C35_OneRunningTaskPerSpeaker ==
    \A speaker_id \in ManualRoom :
        /\ Cardinality(RunningTasks(speaker_id)) <= 1
        /\ \A t \in RunningTasks(speaker_id) :
              /\ Has(manual.audio_processors, speaker_id)
              /\ manual.audio_processors[speaker_id] = t

(***************************************************************************)
(* C37: when the entrypoint has been cancelled, its cleanup has completed  *)
(* and every coroutine that was in flight has ended, no provider session   *)
(* that was started is left unclosed, the sessions whose start was in      *)
(* flight when the shutdown began included.                                *)
(***************************************************************************)
CleanupComplete == realtime.shutdown = "complete" /\ RealtimeIdle

C37_SessionsClosedAfterCleanup ==
    CleanupComplete =>
        \A n \in 1..MaxRealtimeSessions : realtime.sessions[n].state = "free"

================================================================
